---- MODULE Spec2Model ----
(***************************************************************************)
(* A model of ncp's C implementation (src/csrc): the sender of send.c, the *)
(* receiver of recv.c, the wire format of protocol.c, the walk of          *)
(* directory.c and the admission check of diskspace.c.                     *)
(*                                                                         *)
(* Strings and byte buffers are sequences of byte values (a C string is    *)
(* the sequence of its characters without the NUL).  The two directions of *)
(* the TCP connection are sequences of bytes; a blocking read of n bytes   *)
(* is enabled once n bytes are there or the peer has closed.  A            *)
(* filesystem is a function from resolved paths (sequences of path         *)
(* components) to nodes.                                                   *)
(***************************************************************************)
EXTENDS Integers, Sequences, FiniteSets, TLC

(***************************************************************************)
(* Bounds of the model.                                                    *)
(***************************************************************************)
\* Bytes one read()/fread() of payload moves at most (8192 in send.c:19 and
\* recv.c:25; file sizes of the model are scaled down with it).
BUFFER_SIZE == 2
\* How many times the same transfer is run against one destination.
MaxRuns == 2

(***************************************************************************)
(* Characters and string literals of the source.                          *)
(***************************************************************************)
SLASH == 47
DOT == 46
Dot == <<DOT>>
DotDot == <<DOT, DOT>>
\* ".ncp_temp" (recv.c:358)
NcpTempSuffix == <<46, 110, 99, 112, 95, 116, 101, 109, 112>>
\* "File exists, skipping" (recv.c:283)
ReasonExists == <<70, 105, 108, 101, 32, 101, 120, 105, 115, 116, 115, 44, 32,
                  115, 107, 105, 112, 112, 105, 110, 103>>
\* "User declined overwrite" (recv.c:276)
ReasonDeclined == <<85, 115, 101, 114, 32, 100, 101, 99, 108, 105, 110, 101,
                    100, 32, 111, 118, 101, 114, 119, 114, 105, 116, 101>>
\* "User declined directory overwrite" (recv.c:191)
ReasonDeclinedDir == <<85, 115, 101, 114, 32, 100, 101, 99, 108, 105, 110, 101,
                       100, 32, 100, 105, 114, 101, 99, 116, 111, 114, 121, 32,
                       111, 118, 101, 114, 119, 114, 105, 116, 101>>
\* "Insufficient disk space. Need: " and ", Available: " (recv.c:319)
ReasonSpaceNeed == <<73, 110, 115, 117, 102, 102, 105, 99, 105, 101, 110, 116,
                     32, 100, 105, 115, 107, 32, 115, 112, 97, 99, 101, 46, 32,
                     78, 101, 101, 100, 58, 32>>
ReasonSpaceAvail == <<44, 32, 65, 118, 97, 105, 108, 97, 98, 108, 101, 58, 32>>

\* Message types (protocol.h:12-16).
MSG_META == 1
MSG_PREFLIGHT_OK == 2
MSG_PREFLIGHT_FAIL == 3
MSG_TRANSFER_START == 4
MSG_TRANSFER_RESULT == 5

\* OverwriteMode (recv.h:12-16).
OVERWRITE_ASK == 0
OVERWRITE_YES == 1
OVERWRITE_NO == 2

(***************************************************************************)
(* Sequences.                                                              *)
(***************************************************************************)
Front(s) == SubSeq(s, 1, Len(s) - 1)
Drop(s, n) == SubSeq(s, n + 1, Len(s))
Take(s, n) == SubSeq(s, 1, n)
Min(a, b) == IF a < b THEN a ELSE b
IsPrefix(p, s) == Len(p) <= Len(s) /\ SubSeq(s, 1, Len(p)) = p

\* strcmp(a, b) on byte strings: negative, zero or positive.
RECURSIVE strcmp(_, _)
strcmp(a, b) ==
    IF a = <<>> /\ b = <<>> THEN 0
    ELSE IF a = <<>> THEN -1
    ELSE IF b = <<>> THEN 1
    ELSE IF Head(a) # Head(b) THEN Head(a) - Head(b)
    ELSE strcmp(Tail(a), Tail(b))

(***************************************************************************)
(* Fixed-width integers.  A uint64_t is the sequence of its eight bytes,    *)
(* most significant first, so that it keeps its width; counters of the     *)
(* model are naturals below 2^24.                                          *)
(***************************************************************************)
TooBig == 256 * 256 * 256
Zeros(k) == [i \in 1..k |-> 0]
Ones(k) == [i \in 1..k |-> 255]
\* A natural below 2^24 as k bytes, most significant first.
BE(n, k) ==
    [i \in 1..k |->
        IF k - i = 0 THEN n % 256
        ELSE IF k - i = 1 THEN (n \div 256) % 256
        ELSE IF k - i = 2 THEN (n \div 65536) % 256
        ELSE 0]
\* The uint64_t of value n.
U64(n) == BE(n, 8)
\* htonl of a uint32_t of value n, as the four bytes fwrite puts on the
\* stream.
htonl(n) == BE(n, 4)
RECURSIVE Reverse(_)
Reverse(s) == IF s = <<>> THEN <<>> ELSE Reverse(Tail(s)) \o <<Head(s)>>
\* my_htonll on a little-endian host (protocol.c:14-17): htonl reverses the
\* four bytes of each half and the halves change places.
my_htonll(x) == Reverse(SubSeq(x, 5, 8)) \o Reverse(SubSeq(x, 1, 4))
my_ntohll(x) == my_htonll(x)
\* The eight bytes fwrite(&v, 8, 1, f) writes for a uint64_t v and the
\* value fread(&v, 8, 1, f) gives for eight bytes: the host keeps the
\* least significant byte first.
Stored(v) == Reverse(v)
Loaded(bytes) == Reverse(bytes)
\* ntohl / my_ntohll: the value of big-endian bytes, TooBig for 2^24 and more.
NatOf(b) ==
    LET k == Len(b)
    IN  IF \E i \in 1..(k - 3) : b[i] # 0 THEN TooBig
        ELSE b[k - 2] * 65536 + b[k - 1] * 256 + b[k]
\* a < b for two big-endian byte strings of one length.
RECURSIVE BytesLess(_, _)
BytesLess(a, b) ==
    IF a = <<>> THEN FALSE
    ELSE IF Head(a) # Head(b) THEN Head(a) < Head(b)
    ELSE BytesLess(Tail(a), Tail(b))
\* a + b modulo 2^(8*Len(a)).
RECURSIVE BytesAddC(_, _, _)
BytesAddC(a, b, i) ==
    \* the sum of the bytes i..Len(a), as <<carry, bytes>>
    IF i > Len(a) THEN <<0, <<>>>>
    ELSE LET rest == BytesAddC(a, b, i + 1)
             s == a[i] + b[i] + rest[1]
         IN  <<s \div 256, <<s % 256>> \o rest[2]>>
BytesAdd(a, b) == BytesAddC(a, b, 1)[2]
\* a / 10, by long division.
RECURSIVE BytesDiv10R(_, _)
BytesDiv10R(a, rem) ==
    IF a = <<>> THEN <<>>
    ELSE LET cur == rem * 256 + Head(a)
         IN  <<cur \div 10>> \o BytesDiv10R(Tail(a), cur % 10)
BytesDiv10(a) == BytesDiv10R(a, 0)

UINT64_MAX == Ones(8)

(***************************************************************************)
(* protocol.c: the encoders.  Each gives the bytes one call puts on the    *)
(* stream (every write_* ends with fflush).                                *)
(***************************************************************************)
\* The null pointer where a string is expected; it is no string.
NULL == <<-1>>
\* A NULL string and an empty one are both written as four zero bytes.
write_string(str) == IF str = NULL THEN htonl(0) ELSE htonl(Len(str)) \o str

\* write_meta with a length field that leaves out the four bytes of the
\* name's length.
write_meta_short(name, size, is_dir, overwrite) ==
    <<MSG_META>> \o htonl(8 + 1 + 1 + (IF name = NULL THEN 0 ELSE Len(name)))
        \o Stored(my_htonll(size))
        \o <<IF is_dir THEN 1 ELSE 0>> \o <<overwrite>> \o write_string(name)

\* size is a uint64_t, is_dir a truth value (an int tested against 0).
write_meta(name, size, is_dir, overwrite) ==
    <<MSG_META>> \o htonl(8 + 1 + 1 + 4 + (IF name = NULL THEN 0 ELSE Len(name)))
        \o Stored(my_htonll(size))
        \o <<IF is_dir THEN 1 ELSE 0>> \o <<overwrite>> \o write_string(name)

write_preflight_ok(available_space) ==
    <<MSG_PREFLIGHT_OK>> \o htonl(8) \o Stored(my_htonll(available_space))

write_preflight_fail(reason) ==
    <<MSG_PREFLIGHT_FAIL>> \o htonl(4 + (IF reason = NULL THEN 0 ELSE Len(reason)))
        \o write_string(reason)

write_transfer_start(file_size) ==
    <<MSG_TRANSFER_START>> \o htonl(8) \o Stored(my_htonll(file_size))

write_transfer_result(ok, received_bytes) ==
    <<MSG_TRANSFER_RESULT>> \o htonl(9) \o <<IF ok THEN 1 ELSE 0>>
        \o Stored(my_htonll(received_bytes))

(***************************************************************************)
(* protocol.c: the decoders, on the bytes of a stream that ends after      *)
(* them.  Each gives its return code, what it stored and the bytes left.   *)
(***************************************************************************)
ntohl(bytes) == NatOf(bytes)

\* read_string (protocol.c:55-76): a length of zero gives the null pointer.
read_string(reader) ==
    LET len == ntohl(Take(reader, 4))
    IN  IF Len(reader) < 4 THEN [rc |-> -1, str |-> NULL, rest |-> <<>>]
        ELSE IF len = 0 THEN [rc |-> 0, str |-> NULL, rest |-> Drop(reader, 4)]
        ELSE IF Len(reader) < 4 + len THEN [rc |-> -1, str |-> NULL, rest |-> <<>>]
        ELSE [rc |-> 0, str |-> SubSeq(reader, 5, 4 + len),
              rest |-> Drop(reader, 4 + len)]

\* read_meta (protocol.c:104-125).
read_meta(reader) ==
    LET s == read_string(Drop(reader, 10))
    IN  IF Len(reader) < 10 \/ s.rc # 0 THEN [rc |-> -1, rest |-> <<>>]
        ELSE [rc |-> 0, rest |-> s.rest,
              msg |-> [name |-> s.str,
                       size |-> my_ntohll(Loaded(Take(reader, 8))),
                       is_dir |-> reader[9] # 0,
                       overwrite_mode |-> reader[10]]]

\* read_preflight_ok (protocol.c:165-176).
read_preflight_ok(reader) ==
    IF Len(reader) < 8 THEN [rc |-> -1, rest |-> <<>>]
    ELSE [rc |-> 0, rest |-> Drop(reader, 8),
          msg |-> [available_space |-> my_ntohll(Loaded(Take(reader, 8)))]]

\* read_preflight_fail (protocol.c:198-205).
read_preflight_fail(reader) ==
    LET s == read_string(reader)
    IN  IF s.rc # 0 THEN [rc |-> -1, rest |-> <<>>]
        ELSE [rc |-> 0, rest |-> s.rest, msg |-> [reason |-> s.str]]

\* read_transfer_start (protocol.c:226-237).
read_transfer_start(reader) ==
    IF Len(reader) < 8 THEN [rc |-> -1, rest |-> <<>>]
    ELSE [rc |-> 0, rest |-> Drop(reader, 8),
          msg |-> [file_size |-> my_ntohll(Loaded(Take(reader, 8)))]]

\* read_transfer_result_payload (protocol.c:316-347).
read_transfer_result_payload(reader) ==
    IF Len(reader) < 9 THEN [rc |-> -1, rest |-> <<>>]
    ELSE [rc |-> 0, rest |-> Drop(reader, 9),
          msg |-> [ok |-> reader[1] # 0,
                   received_bytes |-> my_ntohll(Loaded(SubSeq(reader, 2, 9)))]]

\* One message read the way every reader of the program does it:
\* read_message_type, read_message_length (protocol.c:353-391), then the
\* payload reader of the type.  The length is read and used by nobody.
read_message(reader) ==
    LET type == reader[1]
        length == ntohl(SubSeq(reader, 2, 5))
        payload == Drop(reader, 5)
        p == IF type = MSG_META THEN read_meta(payload)
             ELSE IF type = MSG_PREFLIGHT_OK THEN read_preflight_ok(payload)
             ELSE IF type = MSG_PREFLIGHT_FAIL THEN read_preflight_fail(payload)
             ELSE IF type = MSG_TRANSFER_START THEN read_transfer_start(payload)
             ELSE IF type = MSG_TRANSFER_RESULT THEN read_transfer_result_payload(payload)
             ELSE [rc |-> -1, rest |-> <<>>]
    IN  IF Len(reader) < 5 \/ p.rc # 0 THEN [rc |-> -1]
        ELSE [rc |-> 0, type |-> type, length |-> length, msg |-> p.msg,
              used |-> Len(reader) - Len(p.rest)]

(***************************************************************************)
(* diskspace.c                                                             *)
(***************************************************************************)
\* check_disk_space without its overflow check.
check_disk_space_wraps(available, required_bytes) ==
    IF available = UINT64_MAX THEN FALSE
    ELSE ~BytesLess(available, BytesAdd(required_bytes, BytesDiv10(required_bytes)))

\* check_disk_space, with the value get_available_space returned to it
\* (UINT64_MAX is its error value) and the required size, both uint64_t.
check_disk_space(available, required_bytes) ==
    IF available = UINT64_MAX THEN FALSE
    ELSE LET buffer == BytesDiv10(required_bytes)
             sum == BytesAdd(required_bytes, buffer)
             required_with_buffer ==
                 IF BytesLess(sum, required_bytes) THEN UINT64_MAX ELSE sum
         IN  ~BytesLess(available, required_with_buffer)

\* The decimal digits of a natural ("%lu").
RECURSIVE Decimal(_)
Decimal(n) ==
    IF n < 10 THEN <<48 + n>> ELSE Decimal(n \div 10) \o <<48 + (n % 10)>>

\* The bits of a byte string, most significant first.
RECURSIVE BitsOfByte(_, _)
BitsOfByte(v, k) ==
    IF k = 0 THEN <<>> ELSE BitsOfByte(v \div 2, k - 1) \o <<v % 2>>
RECURSIVE BitsOf(_)
BitsOf(b) == IF b = <<>> THEN <<>> ELSE BitsOfByte(Head(b), 8) \o BitsOf(Tail(b))
RECURSIVE BitsVal(_)
BitsVal(bits) ==
    IF bits = <<>> THEN 0 ELSE 2 * BitsVal(Front(bits)) + bits[Len(bits)]
LeadingZeros(bits) ==
    IF \A i \in 1..Len(bits) : bits[i] = 0 THEN Len(bits)
    ELSE (CHOOSE i \in 1..Len(bits) :
              bits[i] = 1 /\ \A j \in 1..(i - 1) : bits[j] = 0) - 1

\* format_bytes: below 1024 the byte count and " B"; from 1024 on the value
\* divided by 1024 until it is below 1024 (at most four times), printed with
\* one decimal and the unit.  The decimal is rounded from the next 16 bits
\* below the unit (printf rounds the double the same way up to ties).
UnitName(i) ==
    IF i = 1 THEN <<32, 75, 66>> ELSE IF i = 2 THEN <<32, 77, 66>>
    ELSE IF i = 3 THEN <<32, 71, 66>> ELSE <<32, 84, 66>>
format_bytes(bytes) ==
    LET bits == BitsOf(bytes)
        sig == 64 - LeadingZeros(bits)
    IN  IF sig <= 10 THEN Decimal(BitsVal(bits)) \o <<32, 66>>
        ELSE LET unit_index == Min(4, (sig - 1) \div 10)
                 shift == 10 * unit_index
                 whole == BitsVal(SubSeq(bits, 1, 64 - shift))
                 fbits == SubSeq(bits \o Zeros(16), 64 - shift + 1, 64 - shift + 16)
                 tenths == (BitsVal(fbits) * 10 + 32768) \div 65536
             IN  (IF tenths = 10 THEN Decimal(whole + 1) \o <<DOT, 48>>
                  ELSE Decimal(whole) \o <<DOT, 48 + tenths>>)
                 \o UnitName(unit_index)

\* The reason handle_file_entry gives for a file it has no room for.
InsufficientSpaceReason(available_space, size) ==
    ReasonSpaceNeed \o format_bytes(size) \o ReasonSpaceAvail
        \o format_bytes(available_space)

(***************************************************************************)
(* The filesystem the system calls of recv.c, send.c and directory.c act   *)
(* on: a function from keys to nodes.  A key is the sequence of components *)
(* of a resolved path, <<>> is the root directory (also the working        *)
(* directory), a node is a directory or a file with its bytes.             *)
(***************************************************************************)
DirNode == [kind |-> "dir", data |-> <<>>]
FileNode(data) == [kind |-> "file", data |-> data]
FsPut(fs, k, node) ==
    [x \in DOMAIN fs \cup {k} |-> IF x = k THEN node ELSE fs[x]]
FsDel(fs, k) == [x \in DOMAIN fs \ {k} |-> fs[x]]
IsDirKey(fs, k) == k = <<>> \/ (k \in DOMAIN fs /\ fs[k].kind = "dir")
IsFileKey(fs, k) == k \in DOMAIN fs /\ fs[k].kind = "file"

\* The components of a path string: what stands between its slashes.
RECURSIVE SplitAcc(_, _, _)
SplitAcc(p, cur, acc) ==
    IF p = <<>> THEN (IF cur = <<>> THEN acc ELSE Append(acc, cur))
    ELSE IF Head(p) = SLASH
         THEN SplitAcc(Tail(p), <<>>, IF cur = <<>> THEN acc ELSE Append(acc, cur))
         ELSE SplitAcc(Tail(p), Append(cur, Head(p)), acc)
Components(p) == SplitAcc(p, <<>>, <<>>)

\* Path resolution as the kernel does it: "found" with the key of the node,
\* "absent" with the key the last component would get in an existing
\* directory, "bad" when a component on the way is missing or no directory.
RECURSIVE WalkPath(_, _, _)
WalkPath(fs, key, comps) ==
    IF comps = <<>> THEN [st |-> "found", key |-> key]
    ELSE IF ~IsDirKey(fs, key) THEN [st |-> "bad", key |-> key]
    ELSE LET c == Head(comps)
         IN  IF c = Dot THEN WalkPath(fs, key, Tail(comps))
             ELSE IF c = DotDot
                  THEN WalkPath(fs, IF key = <<>> THEN key ELSE Front(key), Tail(comps))
             ELSE LET k2 == Append(key, c)
                  IN  IF k2 \in DOMAIN fs THEN WalkPath(fs, k2, Tail(comps))
                      ELSE IF Tail(comps) = <<>> THEN [st |-> "absent", key |-> k2]
                      ELSE [st |-> "bad", key |-> k2]
Lookup(fs, path) ==
    IF path = <<>> THEN [st |-> "bad", key |-> <<>>]
    ELSE WalkPath(fs, <<>>, Components(path))

\* stat(2): rc 0 and the node's kind and size, or rc -1.
stat(fs, path) ==
    LET r == Lookup(fs, path)
    IN  IF r.st = "found"
        THEN [rc |-> 0, is_dir |-> IsDirKey(fs, r.key),
              size |-> IF IsDirKey(fs, r.key) THEN 0 ELSE Len(fs[r.key].data)]
        ELSE [rc |-> -1, is_dir |-> FALSE, size |-> 0]
\* mkdir(2)
mkdir(fs, path) ==
    LET r == Lookup(fs, path)
    IN  IF r.st = "absent" THEN [rc |-> 0, errno |-> "", fs |-> FsPut(fs, r.key, DirNode)]
        ELSE IF r.st = "found" THEN [rc |-> -1, errno |-> "EEXIST", fs |-> fs]
        ELSE [rc |-> -1, errno |-> "ENOENT", fs |-> fs]
\* unlink(2): removes a file, fails on a directory or a missing path.
unlink(fs, path) ==
    LET r == Lookup(fs, path)
    IN  IF r.st = "found" /\ IsFileKey(fs, r.key)
        THEN [rc |-> 0, fs |-> FsDel(fs, r.key)]
        ELSE [rc |-> -1, fs |-> fs]
\* fopen(path, "wb"): creates the file or truncates it.
fopen_wb(fs, path) ==
    LET r == Lookup(fs, path)
    IN  IF r.st = "absent" \/ (r.st = "found" /\ IsFileKey(fs, r.key))
        THEN [rc |-> 0, fs |-> FsPut(fs, r.key, FileNode(<<>>))]
        ELSE [rc |-> -1, fs |-> fs]
\* fwrite to the file open at path: the bytes are appended.
fwrite(fs, path, bytes) ==
    LET r == Lookup(fs, path)
    IN  IF r.st = "found" /\ IsFileKey(fs, r.key)
        THEN FsPut(fs, r.key, FileNode(fs[r.key].data \o bytes))
        ELSE fs
\* rename(2) of a file: replaces a file at the new path, fails on a directory.
rename(fs, old, new) ==
    LET o == Lookup(fs, old)
        n == Lookup(fs, new)
    IN  IF o.st = "found" /\ IsFileKey(fs, o.key)
           /\ (n.st = "absent" \/ (n.st = "found" /\ IsFileKey(fs, n.key)))
        THEN [rc |-> 0,
              fs |-> IF n.key = o.key THEN fs
                     ELSE FsPut(FsDel(fs, o.key), n.key, fs[o.key])]
        ELSE [rc |-> -1, fs |-> fs]

(***************************************************************************)
(* recv.c: paths                                                           *)
(***************************************************************************)
\* A determine_final_path that puts the name below the destination whether
\* the destination exists or not.
determine_final_path_joins(fs, dst_path, file_name, is_dir) ==
    [ok |-> TRUE, path |-> dst_path \o <<SLASH>> \o file_name]

\* determine_final_path: the path, or ok = FALSE for its NULL.
determine_final_path(fs, dst_path, file_name, is_dir) ==
    LET st == stat(fs, dst_path)
    IN  IF st.rc = 0
        THEN IF st.is_dir
             THEN [ok |-> TRUE,
                   path |-> dst_path
                            \o (IF dst_path[Len(dst_path)] # SLASH THEN <<SLASH>> ELSE <<>>)
                            \o file_name]
             ELSE IF is_dir THEN [ok |-> FALSE, path |-> <<>>]
                  ELSE [ok |-> TRUE, path |-> dst_path]
        ELSE [ok |-> TRUE, path |-> dst_path]

\* strrchr(path, '/'): the index of the last slash, 0 when there is none.
LastSlash(path) ==
    IF \E i \in 1..Len(path) : path[i] = SLASH
    THEN CHOOSE i \in 1..Len(path) :
             path[i] = SLASH /\ \A j \in (i + 1)..Len(path) : path[j] # SLASH
    ELSE 0

\* The loop of create_parent_directories over the characters of the parent
\* path from index i on: a mkdir at every slash, then one of the whole.
RECURSIVE MkdirLoop(_, _, _)
MkdirLoop(fs, path_copy, i) ==
    IF i > Len(path_copy)
    THEN LET m == mkdir(fs, path_copy)
         IN  IF m.rc # 0 /\ m.errno # "EEXIST" THEN [rc |-> -1, fs |-> fs]
             ELSE [rc |-> 0, fs |-> m.fs]
    ELSE IF path_copy[i] = SLASH
         THEN LET m == mkdir(fs, SubSeq(path_copy, 1, i - 1))
              IN  IF m.rc # 0 /\ m.errno # "EEXIST" THEN [rc |-> -1, fs |-> fs]
                  ELSE MkdirLoop(m.fs, path_copy, i + 1)
         ELSE MkdirLoop(fs, path_copy, i + 1)

create_parent_directories(fs, path) ==
    LET last_slash == LastSlash(path)
        path_copy == SubSeq(path, 1, last_slash - 1)
    IN  IF last_slash = 0 THEN [rc |-> 0, fs |-> fs]
        ELSE IF path_copy = <<>> \/ path_copy = <<SLASH>> THEN [rc |-> 0, fs |-> fs]
        ELSE MkdirLoop(fs, path_copy, IF path_copy[1] = SLASH THEN 2 ELSE 1)

\* A receiver that writes the payload straight to the final path.
TempPathIsFinal(final_path) == final_path

\* The temporary path of handle_file_entry (recv.c:358).
TempPath(final_path) == final_path \o NcpTempSuffix

(***************************************************************************)
(* directory.c: the walk                                                   *)
(***************************************************************************)
create_file_entry(full_path, rel_path, is_dir, size) ==
    [path |-> full_path, relative_path |-> rel_path, is_dir |-> is_dir, size |-> size]

\* A comparison by relative_path alone.
compare_by_path(a, b) == strcmp(a.relative_path, b.relative_path)

compare_entries(a, b) ==
    IF a.is_dir # b.is_dir
    THEN (IF b.is_dir THEN 1 ELSE 0) - (IF a.is_dir THEN 1 ELSE 0)
    ELSE strcmp(a.relative_path, b.relative_path)

\* qsort with compare_entries (no two entries of a walk compare equal).
RECURSIVE InsertEntry(_, _)
InsertEntry(s, e) ==
    IF s = <<>> THEN <<e>>
    ELSE IF compare_entries(e, Head(s)) < 0 THEN <<e>> \o s
    ELSE <<Head(s)>> \o InsertEntry(Tail(s), e)
RECURSIVE qsort(_)
qsort(s) == IF s = <<>> THEN <<>> ELSE InsertEntry(qsort(Tail(s)), Head(s))

RECURSIVE SkipSlashes(_)
SkipSlashes(p) ==
    IF p # <<>> /\ Head(p) = SLASH THEN SkipSlashes(Tail(p)) ELSE p
get_relative_path(root, full_path) ==
    LET rel == SkipSlashes(Drop(full_path, Len(root)))
    IN  IF rel = <<>> THEN Dot ELSE rel

\* The names readdir gives for a directory (without "." and "..").
ReadDir(fs, path) ==
    LET key == Lookup(fs, path).key
    IN  {k[Len(k)] : k \in {c \in DOMAIN fs : Len(c) = Len(key) + 1 /\ Front(c) = key}}

\* walk_recursive: every name of the directory in readdir's order (any
\* order), each directory followed by its own walk.
RECURSIVE WalkNames(_, _, _, _)
WalkNames(fs, root, current_path, names) ==
    IF names = {} THEN <<>>
    ELSE LET d_name == CHOOSE n \in names : TRUE
             full_path == current_path \o <<SLASH>> \o d_name
             st == stat(fs, full_path)
             new_entry == create_file_entry(full_path,
                              get_relative_path(root, full_path), st.is_dir,
                              IF st.is_dir THEN 0 ELSE st.size)
         IN  <<new_entry>>
             \o (IF st.is_dir
                 THEN WalkNames(fs, root, full_path, ReadDir(fs, full_path))
                 ELSE <<>>)
             \o WalkNames(fs, root, current_path, names \ {d_name})
walk_recursive(fs, root, current_path) ==
    WalkNames(fs, root, current_path, ReadDir(fs, current_path))

walk_directory(fs, root) ==
    qsort(<<create_file_entry(root, Dot, TRUE, 0)>> \o walk_recursive(fs, root, root))

\* The name send_file puts in its Meta: what follows the last slash.
BaseName(path) == Drop(path, LastSlash(path))

(***************************************************************************)
(* Reading one direction of the connection.  chan holds the bytes written  *)
(* and not yet read, closed says the writer has closed.  A parse is        *)
(* "block" while the bytes its freads need are not there and may still     *)
(* come, and "short" when the stream ended before them.                    *)
(***************************************************************************)
Starved(closed) == IF closed THEN "short" ELSE "block"

\* handle_connection's reads up to read_meta (recv.c:424-443).  The length
\* field is read and not looked at.
MetaParse(chan, closed) ==
    LET none == [st |-> "block", used |-> 0, name |-> <<>>, size |-> Zeros(8),
                 is_dir |-> FALSE, overwrite_mode |-> 0]
    IN  IF Len(chan) = 0
        THEN [none EXCEPT !.st = IF closed THEN "eof" ELSE "block"]
        ELSE IF chan[1] # MSG_META THEN [none EXCEPT !.st = "badtype", !.used = 1]
        ELSE IF Len(chan) < 19 THEN [none EXCEPT !.st = Starved(closed)]
        ELSE LET name_len == NatOf(SubSeq(chan, 16, 19))
             IN  IF Len(chan) < 19 + name_len
                 THEN [none EXCEPT !.st = Starved(closed)]
                 ELSE [st |-> "ok", used |-> 19 + name_len,
                       name |-> SubSeq(chan, 20, 19 + name_len),
                       size |-> my_ntohll(Loaded(SubSeq(chan, 6, 13))),
                       is_dir |-> chan[14] # 0,
                       overwrite_mode |-> chan[15]]

\* The sender's reads of the answer to a Meta (send.c:219-262, 117-157).
PreflightParse(chan, closed) ==
    LET none == [st |-> "block", used |-> 0, available_space |-> Zeros(8)]
    IN  IF Len(chan) < 5 THEN [none EXCEPT !.st = Starved(closed)]
        ELSE IF chan[1] = MSG_PREFLIGHT_FAIL
        THEN LET reason_len == IF Len(chan) < 9 THEN TooBig
                               ELSE NatOf(SubSeq(chan, 6, 9))
             IN  IF Len(chan) < 9 + reason_len
                 THEN [none EXCEPT !.st = IF closed THEN "fail" ELSE "block",
                                   !.used = Len(chan)]
                 ELSE [none EXCEPT !.st = "fail", !.used = 9 + reason_len]
        ELSE IF chan[1] # MSG_PREFLIGHT_OK
        THEN [none EXCEPT !.st = "unexpected", !.used = 5]
        ELSE IF Len(chan) < 13 THEN [none EXCEPT !.st = Starved(closed)]
        ELSE [st |-> "ok", used |-> 13, available_space |-> my_ntohll(Loaded(SubSeq(chan, 6, 13)))]

\* read_transfer_result_full (protocol.c:283-313).
ResultParse(chan, closed) ==
    LET none == [st |-> "block", used |-> 0, ok |-> FALSE, received_bytes |-> Zeros(8)]
    IN  IF Len(chan) = 0 THEN [none EXCEPT !.st = Starved(closed)]
        ELSE IF chan[1] # MSG_TRANSFER_RESULT
        THEN [none EXCEPT !.st = "unexpected", !.used = 1]
        ELSE IF Len(chan) < 14 THEN [none EXCEPT !.st = Starved(closed)]
        ELSE [st |-> "ok", used |-> 14, ok |-> chan[6] # 0,
              received_bytes |-> my_ntohll(Loaded(SubSeq(chan, 7, 14)))]

\* Reads of TransferStart that do not look at the type byte.
StartParseAnyType(chan, closed) ==
    LET none == [st |-> "block", used |-> 0, file_size |-> Zeros(8)]
    IN  IF Len(chan) = 0 THEN [none EXCEPT !.st = Starved(closed)]
        ELSE IF Len(chan) < 13
        THEN [none EXCEPT !.st = IF closed THEN "uninit" ELSE "block",
                          !.used = Len(chan)]
        ELSE [st |-> "ok", used |-> 13, file_size |-> my_ntohll(Loaded(SubSeq(chan, 6, 13)))]

\* handle_file_entry's reads of TransferStart (recv.c:339-349).  Only the
\* type byte is checked: when the stream ends inside the length or the size,
\* file_size is never assigned ("uninit").
StartParse(chan, closed) ==
    LET none == [st |-> "block", used |-> 0, file_size |-> Zeros(8)]
    IN  IF Len(chan) = 0 THEN [none EXCEPT !.st = Starved(closed)]
        ELSE IF chan[1] # MSG_TRANSFER_START
        THEN [none EXCEPT !.st = "badtype", !.used = 1]
        ELSE IF Len(chan) < 13
        THEN [none EXCEPT !.st = IF closed THEN "uninit" ELSE "block",
                          !.used = Len(chan)]
        ELSE [st |-> "ok", used |-> 13, file_size |-> my_ntohll(Loaded(SubSeq(chan, 6, 13)))]

(***************************************************************************)
(* recv.c: the entry handlers, as functions of the filesystem and of what  *)
(* the environment answers (the operator at the prompt, statvfs).  Each    *)
(* gives the handler's return code, the filesystem it leaves, the bytes it *)
(* wrote to the stream and the events it went through.                     *)
(***************************************************************************)
Ev(e, i, r) == [e |-> e, i |-> i, r |-> r]

\* An overwrite switch that lets mode No through to the transfer.
OverwriteSwitchFileNoGoes(overwrite_mode, answer) ==
    IF overwrite_mode = OVERWRITE_ASK /\ ~answer THEN "declined" ELSE "go"

\* The overwrite switch of both handlers for an existing path: "fail" with
\* a reason, or "go".  A mode byte that is none of the three falls through.
OverwriteSwitchFile(overwrite_mode, answer) ==
    IF overwrite_mode = OVERWRITE_ASK /\ ~answer THEN "declined"
    ELSE IF overwrite_mode = OVERWRITE_NO THEN "refused"
    ELSE "go"
OverwriteSwitchDir(overwrite_mode, answer) ==
    IF overwrite_mode = OVERWRITE_ASK /\ ~answer THEN "declined" ELSE "go"
\* What the user may type at the prompt: nothing before the end of input,
\* an empty line, "n" and "Y".
UserInputs == {<<>>, <<10>>, <<110, 10>>, <<89, 10>>}
tolower(c) == IF c >= 65 /\ c <= 90 THEN c + 32 ELSE c
\* prompt_overwrite (recv.c:122-137) on the line fgets reads; <<>> is the
\* end of input, where fgets returns NULL.
prompt_overwrite(input) ==
    LET low == [k \in 1..Len(input) |-> tolower(input[k])]
    IN  IF input = <<>> THEN FALSE
        ELSE \/ IsPrefix(<<121>>, low)
             \/ IsPrefix(<<121, 101, 115>>, low)
\* A prompt under every mode.
PromptedAnyMode(overwrite_mode, input) ==
    <<Ev("prompt", IF prompt_overwrite(input) THEN 1 ELSE 0, input)>>
\* prompt_overwrite is called under Ask alone; the event keeps what was
\* typed and what the call returned.
Prompted(overwrite_mode, input) ==
    IF overwrite_mode = OVERWRITE_ASK
    THEN <<Ev("prompt", IF prompt_overwrite(input) THEN 1 ELSE 0, input)>>
    ELSE <<>>

\* A directory handler that answers PreflightOk and leaves the TransferResult
\* for later.
DirectoryAnswerOkOnly == write_preflight_ok(U64(0))

\* The two writes that end handle_directory_entry (recv.c:235-261).
DirectoryAnswer ==
    write_preflight_ok(U64(0)) \o write_transfer_result(TRUE, U64(0))

handle_directory_entry(fs, final_path, overwrite_mode, input) ==
    LET st == stat(fs, final_path)
        accept(f, evs) ==
            [rc |-> 0, fs |-> f, out |-> DirectoryAnswer,
             ev |-> evs \o <<Ev("wrOk", 0, U64(0)), Ev("wrResult", 1, U64(0))>>]
        fail(f, evs) == [rc |-> -1, fs |-> f, out |-> <<>>, ev |-> evs]
    IN  IF st.rc = 0
        THEN IF ~st.is_dir
             THEN IF OverwriteSwitchDir(overwrite_mode, prompt_overwrite(input)) = "declined"
                  THEN [rc |-> -1, fs |-> fs,
                        out |-> write_preflight_fail(ReasonDeclinedDir),
                        ev |-> Prompted(overwrite_mode, input)
                               \o <<Ev("wrFail", 0, ReasonDeclinedDir)>>]
                  ELSE LET u == unlink(fs, final_path)
                           m == mkdir(u.fs, final_path)
                       IN  IF u.rc # 0 THEN fail(fs, Prompted(overwrite_mode, input))
                           ELSE IF m.rc # 0 THEN fail(u.fs, Prompted(overwrite_mode, input))
                           ELSE accept(m.fs, Prompted(overwrite_mode, input))
             ELSE accept(fs, <<>>)
        ELSE LET c == create_parent_directories(fs, final_path)
                 m == mkdir(c.fs, final_path)
             IN  IF c.rc # 0 THEN fail(c.fs, <<>>)
                 ELSE IF m.rc # 0 THEN fail(c.fs, <<>>)
                 ELSE accept(m.fs, <<>>)

\* handle_file_entry up to its read of TransferStart (recv.c:264-336).
\* available_space is what get_available_space returned to the handler,
\* checked_space what it returned inside check_disk_space.
FilePreflight(fs, final_path, size, overwrite_mode, input, available_space, checked_space) ==
    LET st == stat(fs, final_path)
        sw == IF st.rc = 0 THEN OverwriteSwitchFile(overwrite_mode, prompt_overwrite(input)) ELSE "go"
        asked == IF st.rc = 0 THEN Prompted(overwrite_mode, input) ELSE <<>>
        c == create_parent_directories(fs, final_path)
        reject(f, reason) ==
            [rc |-> -1, fs |-> f, out |-> write_preflight_fail(reason),
             ev |-> asked \o <<Ev("wrFail", 0, reason)>>]
    IN  IF sw = "declined" THEN reject(fs, ReasonDeclined)
        ELSE IF sw = "refused" THEN reject(fs, ReasonExists)
        ELSE IF c.rc # 0 THEN [rc |-> -1, fs |-> c.fs, out |-> <<>>, ev |-> asked]
        ELSE IF ~check_disk_space(checked_space, size)
        THEN reject(c.fs, InsufficientSpaceReason(available_space, size))
        ELSE [rc |-> 0, fs |-> c.fs, out |-> write_preflight_ok(available_space),
              ev |-> asked \o <<Ev("wrOk", 0, available_space)>>]

\* handle_connection calling the handlers with its own overwrite_mode.
DispatchOwnMode(fs, final_path, m, overwrite_mode, input, sp) ==
    IF m.is_dir
    THEN handle_directory_entry(fs, final_path, overwrite_mode, input)
    ELSE FilePreflight(fs, final_path, m.size, overwrite_mode, input, sp[1], sp[2])

\* handle_connection's call of the entry handler (recv.c:459-464):
\* overwrite_mode is handle_connection's own argument, which it does not
\* pass on; the handlers get the mode of the Meta.
Dispatch(fs, final_path, m, overwrite_mode, input, sp) ==
    IF m.is_dir
    THEN handle_directory_entry(fs, final_path, m.overwrite_mode, input)
    ELSE FilePreflight(fs, final_path, m.size, m.overwrite_mode, input, sp[1], sp[2])

\* A failure path that returns without removing the temporary file.
StreamFailureKeepsTemp(fs, final_path) ==
    [rc |-> -1, fs |-> fs, out |-> <<>>, ev |-> <<>>]

\* What handle_file_entry does when its receive loop has failed
\* (recv.c:376-388): the temporary file is closed and removed.
StreamFailure(fs, final_path) ==
    [rc |-> -1, fs |-> unlink(fs, TempPath(final_path)).fs, out |-> <<>>, ev |-> <<>>]

\* handle_file_entry after its receive loop (recv.c:398-415).  The fclose of
\* the temporary file, whose result the code does not look at, is taken to
\* succeed.
FinishFile(fs, final_path, total_bytes) ==
    LET r == rename(fs, TempPath(final_path), final_path)
    IN  IF r.rc # 0
        THEN [rc |-> -1, fs |-> unlink(fs, TempPath(final_path)).fs, out |-> <<>>,
              ev |-> <<>>]
        ELSE [rc |-> 0, fs |-> r.fs, out |-> write_transfer_result(TRUE, U64(total_bytes)),
              ev |-> <<Ev("rename", total_bytes, final_path),
                       Ev("wrResult", 1, U64(total_bytes))>>]

(***************************************************************************)
(* send.c: the decisions of send_directory_entry, send_file and            *)
(* send_file_content.                                                      *)
(***************************************************************************)
\* A sender that sends TransferStart and content for every accepted entry.
SendsContentAlways(entry) == TRUE

\* Whether TransferStart and content follow a PreflightOk (send.c:267, 159).
SendsContent(entry) == ~entry.is_dir

\* The bytes one read(fd, buffer, BUFFER_SIZE) returns from a file of
\* file_len bytes at offset total_sent (send.c:38).
ReadLen(file_len, total_sent, size) == Min(BUFFER_SIZE, file_len - total_sent)

\* A loop that goes on to the next entry whatever the last one returned.
NextEntryKeepsGoing(rc, i, count) == IF i < count THEN i + 1 ELSE 0

\* The loop of send_directory after an entry returned rc (send.c:339-352):
\* the index of the next entry to send, 0 when the loop is left.
NextEntry(rc, i, count) == IF rc < 0 THEN 0 ELSE IF i < count THEN i + 1 ELSE 0

\* The bytes the receive loop asks for in one read_exact_bytes (recv.c:373).
ToRead(file_size, total_bytes) ==
    IF NatOf(file_size) = TooBig THEN BUFFER_SIZE
    ELSE Min(NatOf(file_size) - total_bytes, BUFFER_SIZE)
\* The loop condition total_bytes < file_size (recv.c:372).
MoreToReceive(file_size, total_bytes) ==
    NatOf(file_size) = TooBig \/ total_bytes < NatOf(file_size)

(***************************************************************************)
(* The scenarios: source trees, destinations, what the environment may     *)
(* answer.                                                                 *)
(***************************************************************************)
n_s == <<115>>
n_d == <<100>>
n_f == <<102>>
n_a == <<97>>
n_b == <<98>>
n_u == <<117>>
n_x == <<120>>
n_dash == <<45>>
RECURSIVE AbsPath(_)
AbsPath(comps) ==
    IF comps = <<>> THEN <<>> ELSE <<SLASH>> \o Head(comps) \o AbsPath(Tail(comps))
RootFs == [k \in {<<>>} |-> DirNode]
RECURSIVE MkFs(_)
\* A filesystem from a sequence of <<key, node>> pairs.
MkFs(pairs) ==
    IF pairs = <<>> THEN RootFs
    ELSE FsPut(MkFs(Front(pairs)), pairs[Len(pairs)][1], pairs[Len(pairs)][2])

\* /s with a subdirectory u, a file a of three bytes and a file u/b of one.
SrcTree == MkFs(<< <<<<n_s>>, DirNode>>, <<<<n_s, n_u>>, DirNode>>,
                   <<<<n_s, n_a>>, FileNode(<<7, 7, 7>>)>>,
                   <<<<n_s, n_u, n_b>>, FileNode(<<8>>)>> >>)
\* /s with an empty subdirectory "-" and a file a of one byte.
SrcDash == MkFs(<< <<<<n_s>>, DirNode>>, <<<<n_s, n_dash>>, DirNode>>,
                   <<<<n_s, n_a>>, FileNode(<<7>>)>> >>)
SrcConfigs ==
    { [fs |-> SrcTree, path |-> AbsPath(<<n_s>>)],
      [fs |-> SrcDash, path |-> AbsPath(<<n_s>>)],
      [fs |-> SrcTree, path |-> AbsPath(<<n_s, n_a>>)] }

\* Destinations: /d absent; /d a directory holding a file a; /d a file;
\* /d a directory holding a directory a and a file u; /f/x below a file /f.
DstConfigs ==
    { [fs |-> RootFs, path |-> AbsPath(<<n_d>>)],
      [fs |-> MkFs(<< <<<<n_d>>, DirNode>>, <<<<n_d, n_a>>, FileNode(<<5>>)>> >>),
       path |-> AbsPath(<<n_d>>)],
      [fs |-> MkFs(<< <<<<n_d>>, FileNode(<<5>>)>> >>), path |-> AbsPath(<<n_d>>)],
      [fs |-> MkFs(<< <<<<n_d>>, DirNode>>, <<<<n_d, n_a>>, DirNode>>,
                      <<<<n_d, n_u>>, FileNode(<<5>>)>> >>),
       path |-> AbsPath(<<n_d>>)],
      [fs |-> MkFs(<< <<<<n_f>>, FileNode(<<5>>)>> >>), path |-> AbsPath(<<n_f, n_x>>)] }

OverwriteModes == {OVERWRITE_ASK, OVERWRITE_YES, OVERWRITE_NO}

\* The receiver's own overwrite option: it allows every overwrite or none
\* (the theorems about it range over all three modes).
ReceiverModes == {OVERWRITE_YES, OVERWRITE_NO}

\* What get_available_space may return: no room, room, its error value.
AvailChoices == {U64(0), U64(100), UINT64_MAX}

\* What the two calls of get_available_space for one file may return
\* (recv.c:306 and, inside check_disk_space, diskspace.c): the same value
\* twice, or room at the first call and none left at the second.
SpaceReadings ==
    {<<a, a>> : a \in AvailChoices} \cup {<<U64(100), U64(0)>>}

\* What a source file of content c may hold when send_file_content opens it:
\* the same bytes, or a file that shrank or grew since it was stat-ed.
SourceVariants(c) ==
    {c, c \o <<9>>, c \o <<MSG_META>>} \cup (IF c = <<>> THEN {} ELSE {Front(c)})

\* What a write to the connection may return: it succeeds while the peer
\* has the connection open, and may also fail once the peer has closed.
WriteOutcomes(peer_closed) == IF peer_closed THEN {TRUE, FALSE} ELSE {TRUE}

(***************************************************************************)
(* The state.                                                              *)
(***************************************************************************)
VARIABLES
    srcFs,        \* the sender's filesystem
    src_path,     \* the sender's source path argument
    overwrite,    \* the sender's overwrite mode argument
    dstFs,        \* the receiver's filesystem
    dst_path,     \* the receiver's destination path argument
    recv_overwrite, \* the receiver's overwrite mode argument
    s2r,          \* bytes written by the sender and not yet read
    r2s,          \* bytes written by the receiver and not yet read
    sclosed,      \* the sender has closed the connection
    rclosed,      \* the receiver has closed the connection
    spc,          \* where the sender is
    entries,      \* the sender's FileEntryArray (one entry for a single file)
    si,           \* index of the entry being sent
    total_sent,   \* send_file_content's counter
    sfd,          \* the bytes of the source file open in send_file_content
    sret,         \* what the send operation returned (-1 while running)
    rpc,          \* where the receiver is
    rmeta,        \* the FileMeta being handled
    final_path,   \* its final path
    file_size,    \* TransferStart.file_size as read
    total_bytes,  \* the receive loop's counter
    rret,         \* what handle_connection returned (1 while running)
    slog,         \* what the sender read and wrote, in order
    rlog,         \* what the receiver read and wrote, in order
    pre,          \* the receiver's filesystem when the current Meta was read
    run,          \* which run of the transfer this is
    past,         \* the finished runs: their logs and filesystems
    dst0,         \* the receiver's filesystem when this run began
    fault,        \* an injected I/O failure has happened in this run
    changed,      \* a source file was found changed in this run
    fn,           \* the function called on its own ("none" in a transfer)
    fn_in,        \* its arguments
    fn_out        \* what it returned (<<>> before the call)

vars == <<srcFs, src_path, overwrite, dstFs, dst_path, recv_overwrite, s2r, r2s, sclosed, rclosed,
          spc, entries, si, total_sent, sfd, sret,
          rpc, rmeta, final_path, file_size, total_bytes, rret,
          slog, rlog, pre, run, past, dst0, fault, changed, fn, fn_in, fn_out>>
runVars == <<run, past, dst0>>
fnVars == <<fn, fn_in, fn_out>>
config == <<src_path, overwrite, dst_path, recv_overwrite, fnVars>>
senderVars == <<spc, entries, si, total_sent, sfd, sret, sclosed, slog>>
receiverVars == <<rpc, rmeta, final_path, file_size, total_bytes, rret, rclosed, rlog, pre>>

NoMeta == [name |-> <<>>, size |-> Zeros(8), is_dir |-> FALSE, overwrite_mode |-> 0]

SessionInit ==
    /\ s2r = <<>> /\ r2s = <<>> /\ sclosed = FALSE /\ rclosed = FALSE
    /\ spc = "start" /\ entries = <<>> /\ si = 0 /\ total_sent = 0 /\ sfd = <<>>
    /\ sret = -1
    /\ rpc = "meta" /\ rmeta = NoMeta /\ final_path = <<>> /\ file_size = Zeros(8)
    /\ total_bytes = 0 /\ rret = 1
    /\ slog = <<>> /\ rlog = <<>>
    /\ fault = FALSE /\ changed = FALSE

Init ==
    /\ \E s \in SrcConfigs : srcFs = s.fs /\ src_path = s.path
    /\ \E d \in DstConfigs : dstFs = d.fs /\ dst_path = d.path
    /\ overwrite \in OverwriteModes
    /\ recv_overwrite \in ReceiverModes
    /\ pre = dstFs /\ dst0 = dstFs
    /\ run = 1 /\ past = <<>>
    /\ SessionInit
    /\ fn = "none" /\ fn_in = <<>> /\ fn_out = [done |-> FALSE]

(***************************************************************************)
(* The sender: ncp_execute_send from the established connection on, with   *)
(* send_directory / send_directory_entry for a directory and send_file for *)
(* a single file (the two run the same steps on one entry).  One action    *)
(* per stretch of code between two blocking reads or payload writes.       *)
(***************************************************************************)
\* The written bytes reach the peer unless it has closed.
Deliver(chan, peer_closed, bytes) == IF peer_closed THEN chan ELSE chan \o bytes

\* The send operation returns: failure (1) for rc < 0, else 0; the socket
\* is closed (send.c:354, 437-439).
SenderReturns(rc, evs) ==
    /\ spc' = "done"
    /\ sret' = IF rc < 0 THEN 1 ELSE 0
    /\ sclosed' = TRUE
    /\ slog' = slog \o evs \o <<Ev("ret", IF rc < 0 THEN 1 ELSE 0, <<>>)>>
    /\ UNCHANGED <<entries, si, total_sent, sfd>>

\* An entry has returned rc: the next entry, or the end of the loop.
AfterEntry(rc, evs) ==
    LET nx == NextEntry(rc, si, Len(entries))
    IN  IF nx = 0 THEN SenderReturns(rc, evs)
        ELSE /\ spc' = "meta" /\ si' = nx /\ slog' = slog \o evs
             /\ UNCHANGED <<entries, total_sent, sfd, sret, sclosed>>

\* walk_directory for a directory (send.c:306), stat and the base name for
\* a single file (send.c:64-90).
S_Start ==
    /\ spc = "start"
    /\ LET st == stat(srcFs, src_path)
       IN  entries' = IF st.is_dir THEN walk_directory(srcFs, src_path)
                      ELSE <<create_file_entry(src_path, BaseName(src_path),
                                               st.is_dir, st.size)>>
    /\ si' = 1 /\ spc' = "meta"
    /\ UNCHANGED <<srcFs, dstFs, config, s2r, r2s, total_sent, sfd, sret, sclosed,
                   slog, receiverVars, runVars, fault, changed>>

\* write_meta of the current entry (send.c:198-216, 85-113).
S_SendMeta ==
    /\ spc = "meta"
    /\ LET e == entries[si]
       IN  \E wok \in WriteOutcomes(rclosed) :
             IF wok
             THEN /\ s2r' = Deliver(s2r, rclosed,
                                write_meta(e.relative_path, U64(e.size), e.is_dir, overwrite))
                  /\ spc' = "preflight"
                  /\ slog' = Append(slog, Ev("wrMeta", si, e.relative_path))
                  /\ UNCHANGED <<entries, si, total_sent, sfd, sret, sclosed>>
             ELSE /\ SenderReturns(-1, <<>>) /\ s2r' = s2r
    /\ UNCHANGED <<srcFs, dstFs, config, r2s, receiverVars, runVars, fault, changed>>

\* The answer to the Meta is read; after PreflightOk for a file
\* TransferStart is written and send_file_content opens the file
\* (send.c:218-283 and 21-31).
S_Preflight ==
    /\ spc = "preflight"
    /\ LET p == PreflightParse(r2s, rclosed)
           e == entries[si]
           key == Lookup(srcFs, e.path).key
       IN  /\ p.st # "block"
           /\ r2s' = Drop(r2s, p.used)
           /\ IF p.st = "fail"
              THEN /\ AfterEntry(-1, <<Ev("rdFail", si, <<>>)>>)
                   /\ UNCHANGED <<s2r, srcFs, fault, changed>>
              ELSE IF p.st # "ok"
              THEN /\ AfterEntry(-1, <<Ev("rdBad", si, <<>>)>>)
                   /\ UNCHANGED <<s2r, srcFs, fault, changed>>
              ELSE IF ~SendsContent(e)
              THEN /\ spc' = "result"
                   /\ slog' = Append(slog, Ev("rdOk", si, <<>>))
                   /\ UNCHANGED <<s2r, srcFs, fault, changed, entries, si, total_sent,
                                  sfd, sret, sclosed>>
              ELSE \E wok \in WriteOutcomes(rclosed) :
                     IF ~wok
                     THEN /\ AfterEntry(-1, <<Ev("rdOk", si, <<>>)>>)
                          /\ UNCHANGED <<s2r, srcFs, fault, changed>>
                     ELSE /\ s2r' = Deliver(s2r, rclosed, write_transfer_start(U64(e.size)))
                          /\ IF e.size = 0
                             THEN /\ spc' = "result"
                                  /\ slog' = slog \o <<Ev("rdOk", si, <<>>),
                                                       Ev("wrStart", e.size, <<>>)>>
                                  /\ UNCHANGED <<srcFs, fault, changed, entries, si,
                                                 total_sent, sfd, sret, sclosed>>
                             ELSE \E opened \in BOOLEAN :
                                  \E data \in (IF changed THEN {srcFs[key].data}
                                               ELSE SourceVariants(srcFs[key].data)) :
                                    IF ~opened
                                    THEN /\ AfterEntry(-1, <<Ev("rdOk", si, <<>>),
                                                             Ev("wrStart", e.size, <<>>)>>)
                                         /\ fault' = TRUE
                                         /\ UNCHANGED <<srcFs, changed>>
                                    ELSE /\ sfd' = data /\ total_sent' = 0
                                         /\ spc' = "content"
                                         /\ srcFs' = FsPut(srcFs, key, FileNode(data))
                                         /\ changed' = (changed \/ data # srcFs[key].data)
                                         /\ slog' = slog \o <<Ev("rdOk", si, <<>>),
                                                              Ev("wrStart", e.size, <<>>)>>
                                         /\ UNCHANGED <<fault, entries, si, sret, sclosed>>
    /\ UNCHANGED <<dstFs, config, receiverVars, runVars>>

\* One turn of send_file_content's loop: a read of the file, a write of
\* what was read (send.c:37-56).
S_Content ==
    /\ spc = "content"
    /\ LET e == entries[si]
           n == ReadLen(Len(sfd), total_sent, e.size)
       IN  IF n <= 0
           THEN /\ AfterEntry(-1, <<Ev("srcEof", total_sent, <<>>)>>) /\ s2r' = s2r
           ELSE \E wok \in WriteOutcomes(rclosed) :
                  IF ~wok
                  THEN /\ AfterEntry(-1, <<>>) /\ s2r' = s2r
                  ELSE /\ s2r' = Deliver(s2r, rclosed,
                                     SubSeq(sfd, total_sent + 1, total_sent + n))
                       /\ total_sent' = total_sent + n
                       /\ slog' = Append(slog, Ev("wrData", n, <<>>))
                       /\ spc' = IF total_sent + n < e.size THEN "content" ELSE "result"
                       /\ UNCHANGED <<entries, si, sfd, sret, sclosed>>
    /\ UNCHANGED <<srcFs, dstFs, config, r2s, receiverVars, runVars, fault, changed>>

\* read_transfer_result_full and the check of ok (send.c:285-302, 177-190).
S_Result ==
    /\ spc = "result"
    /\ LET p == ResultParse(r2s, rclosed)
       IN  /\ p.st # "block"
           /\ r2s' = Drop(r2s, p.used)
           /\ IF p.st = "ok"
              THEN AfterEntry(IF p.ok THEN 0 ELSE -1,
                              <<Ev("rdResult", IF p.ok THEN 1 ELSE 0, p.received_bytes)>>)
              ELSE AfterEntry(-1, <<Ev("rdBad", si, <<>>)>>)
    /\ UNCHANGED <<srcFs, dstFs, config, s2r, receiverVars, runVars, fault, changed>>

(***************************************************************************)
(* The receiver: handle_connection on the accepted connection.  Its writes *)
(* are taken to succeed.                                                   *)
(***************************************************************************)
\* What file_size may hold when read_transfer_start never assigned it.
UninitChoices == {U64(0), U64(1), UINT64_MAX}

\* read_string leaves a null pointer for a name of length 0
\* (protocol.c read_string); determine_final_path takes its strlen when the
\* destination is a directory (recv.c:98-104), which ends the process.
NullNameDeref(fs, dst, file_name) ==
    file_name = <<>> /\ stat(fs, dst).rc = 0 /\ stat(fs, dst).is_dir

\* handle_connection returns rc and the connection is closed (-2: the
\* process was ended before it could return).
ReceiverCloses(rc, evs, fs) ==
    /\ rpc' = "closed"
    /\ rret' = rc
    /\ rclosed' = TRUE
    /\ rlog' = rlog \o evs \o <<Ev("close", rc, <<>>)>>
    /\ dstFs' = fs
    /\ total_bytes' = total_bytes
ReceiverReturns(rc, evs, fs) ==
    ReceiverCloses(rc, evs, fs) /\ UNCHANGED <<rmeta, final_path>>

\* From the receive loop's end to the next read of a message type
\* (recv.c:398-415, 470-475).
ReceiverFinishes(fs, tb, evs) ==
    LET f == FinishFile(fs, final_path, tb)
    IN  IF f.rc # 0
        THEN ReceiverReturns(-1, evs, f.fs) /\ r2s' = r2s
        ELSE /\ rpc' = "meta"
             /\ r2s' = r2s \o f.out
             /\ dstFs' = f.fs
             /\ total_bytes' = tb
             /\ rlog' = rlog \o evs \o f.ev
             /\ UNCHANGED <<rmeta, final_path, rret, rclosed>>

\* One turn of handle_connection's loop up to the handler's first blocking
\* read: the Meta is read, the final path determined, and the directory
\* handler run whole or the file handler up to its answer (recv.c:422-478).
R_Meta ==
    /\ rpc = "meta"
    /\ LET m == MetaParse(s2r, sclosed)
           fp == determine_final_path(dstFs, dst_path, m.name, m.is_dir)
           read == <<Ev("rdMeta", IF m.is_dir THEN 1 ELSE 0, m.name)>>
           meta == [name |-> m.name, size |-> m.size, is_dir |-> m.is_dir,
                    overwrite_mode |-> m.overwrite_mode]
       IN  /\ m.st # "block"
           /\ s2r' = Drop(s2r, m.used)
           /\ pre' = IF m.st = "ok" THEN dstFs ELSE pre
           /\ IF m.st = "eof"
              THEN ReceiverReturns(0, <<>>, dstFs) /\ UNCHANGED <<r2s, file_size>>
              ELSE IF m.st # "ok"
              THEN ReceiverReturns(-1, <<Ev("rdBad", 0, <<>>)>>, dstFs)
                   /\ UNCHANGED <<r2s, file_size>>
              ELSE IF NullNameDeref(dstFs, dst_path, m.name)
              THEN /\ ReceiverCloses(-2, read, dstFs)
                   /\ rmeta' = meta /\ final_path' = <<>>
                   /\ UNCHANGED <<r2s, file_size>>
              ELSE IF ~fp.ok
              THEN /\ ReceiverCloses(-1, read, dstFs)
                   /\ rmeta' = meta /\ final_path' = <<>>
                   /\ UNCHANGED <<r2s, file_size>>
              ELSE \E input \in UserInputs, sp \in SpaceReadings :
                     LET h == Dispatch(dstFs, fp.path, m, recv_overwrite, input, sp)
                     IN  /\ r2s' = r2s \o h.out
                         /\ rmeta' = meta
                         /\ final_path' = fp.path
                         /\ IF h.rc # 0
                            THEN ReceiverCloses(-1, read \o h.ev, h.fs)
                            ELSE /\ rpc' = IF m.is_dir THEN "meta" ELSE "start"
                                 /\ dstFs' = h.fs
                                 /\ rlog' = rlog \o read \o h.ev
                                 /\ UNCHANGED <<total_bytes, rret, rclosed>>
                         /\ UNCHANGED file_size
    /\ UNCHANGED <<srcFs, config, senderVars, runVars, fault, changed>>

\* handle_file_entry from its read of TransferStart to the open temporary
\* file (recv.c:338-370); a file of no bytes is finished at once.
R_Start ==
    /\ rpc = "start"
    /\ LET p == StartParse(s2r, sclosed)
           o == fopen_wb(dstFs, TempPath(final_path))
       IN  /\ p.st # "block"
           /\ s2r' = Drop(s2r, p.used)
           /\ IF p.st \in {"short", "badtype"}
              THEN ReceiverReturns(-1, <<Ev("rdBad", 0, <<>>)>>, dstFs)
                   /\ UNCHANGED <<r2s, file_size>>
              ELSE \E fsz \in (IF p.st = "uninit" THEN UninitChoices ELSE {p.file_size}) :
                     /\ file_size' = fsz
                     /\ IF o.rc # 0
                        THEN ReceiverReturns(-1, <<Ev("rdStart", 0, fsz)>>, dstFs)
                             /\ r2s' = r2s
                        ELSE IF MoreToReceive(fsz, 0)
                        THEN /\ rpc' = "stream"
                             /\ total_bytes' = 0
                             /\ dstFs' = o.fs
                             /\ rlog' = Append(rlog, Ev("rdStart", 0, fsz))
                             /\ UNCHANGED <<r2s, rmeta, final_path, rret, rclosed>>
                        ELSE ReceiverFinishes(o.fs, 0, <<Ev("rdStart", 0, fsz)>>)
    /\ UNCHANGED <<srcFs, config, senderVars, runVars, fault, changed, pre>>

\* One turn of the receive loop: read_exact_bytes of the chunk, fwrite to
\* the temporary file (recv.c:372-397).
R_Chunk ==
    /\ rpc = "stream"
    /\ LET n == ToRead(file_size, total_bytes)
       IN  /\ (Len(s2r) >= n \/ sclosed)
           /\ IF Len(s2r) < n
              THEN /\ s2r' = <<>>
                   /\ ReceiverReturns(-1, <<Ev("rdShort", total_bytes, <<>>)>>,
                                      StreamFailure(dstFs, final_path).fs)
                   /\ UNCHANGED <<r2s, fault>>
              ELSE /\ s2r' = Drop(s2r, n)
                   /\ \E written \in BOOLEAN :
                        IF ~written
                        THEN /\ ReceiverReturns(-1, <<Ev("wrShort", total_bytes, <<>>)>>,
                                                StreamFailure(dstFs, final_path).fs)
                             /\ fault' = TRUE
                             /\ r2s' = r2s
                        ELSE /\ fault' = fault
                             /\ IF MoreToReceive(file_size, total_bytes + n)
                                THEN /\ dstFs' = fwrite(dstFs, TempPath(final_path),
                                                        Take(s2r, n))
                                     /\ total_bytes' = total_bytes + n
                                     /\ rlog' = Append(rlog, Ev("rdData", n, <<>>))
                                     /\ UNCHANGED <<r2s, rpc, rmeta, final_path, rret,
                                                    rclosed>>
                                ELSE ReceiverFinishes(
                                         fwrite(dstFs, TempPath(final_path), Take(s2r, n)),
                                         total_bytes + n, <<Ev("rdData", n, <<>>)>>)
    /\ UNCHANGED <<srcFs, config, senderVars, runVars, changed, pre, file_size>>

\* Both programs have returned from a run without injected failures and the
\* same transfer is started again on the filesystems the run left.
Rerun ==
    /\ spc = "done" /\ rpc = "closed"
    /\ run < MaxRuns
    /\ ~fault /\ ~changed
    /\ run' = run + 1
    /\ past' = Append(past, [slog |-> slog, rlog |-> rlog, sret |-> sret, rret |-> rret,
                             before |-> dst0, after |-> dstFs])
    /\ dst0' = dstFs /\ pre' = dstFs
    /\ s2r' = <<>> /\ r2s' = <<>> /\ sclosed' = FALSE /\ rclosed' = FALSE
    /\ spc' = "start" /\ entries' = <<>> /\ si' = 0 /\ total_sent' = 0 /\ sfd' = <<>>
    /\ sret' = -1
    /\ rpc' = "meta" /\ rmeta' = NoMeta /\ final_path' = <<>> /\ file_size' = Zeros(8)
    /\ total_bytes' = 0 /\ rret' = 1
    /\ slog' = <<>> /\ rlog' = <<>>
    /\ fault' = FALSE /\ changed' = FALSE
    /\ UNCHANGED <<srcFs, dstFs, config>>

Next ==
    \/ S_Start
    \/ S_SendMeta
    \/ S_Preflight
    \/ S_Content
    \/ S_Result
    \/ R_Meta
    \/ R_Start
    \/ R_Chunk
    \/ Rerun

Spec == Init /\ [][Next]_vars

(***************************************************************************)
(* The functions called on their own, as the unit tests of src/csrc/tests  *)
(* call them: the arguments are drawn at the start, one action per         *)
(* function makes the call.  No transfer runs meanwhile.                   *)
(***************************************************************************)
transferVars == <<srcFs, src_path, overwrite, dstFs, dst_path, recv_overwrite,
                  s2r, r2s, senderVars, receiverVars, runVars, fault, changed>>
NoTransfer ==
    /\ srcFs = RootFs /\ src_path = <<>> /\ overwrite = OVERWRITE_ASK
    /\ dstFs = RootFs /\ dst_path = <<>> /\ recv_overwrite = OVERWRITE_ASK
    /\ pre = dstFs /\ dst0 = dstFs
    /\ run = 1 /\ past = <<>>
    /\ SessionInit
\* The call of function f has not been made yet.
Pending(f) == fn = f /\ ~fn_out.done
Returned(f) == fn = f /\ fn_out.done

\* uint64_t values around the edges of check_disk_space: small ones, 2^63,
\* the two sizes between which size + size/10 passes 2^64, 2^64-2, 2^64-1.
SizeOverflows == <<232, 186, 46, 139, 162, 232, 186, 47>>
SizeJustFits == <<232, 186, 46, 139, 162, 232, 186, 46>>
Edge64 == {<<128, 0, 0, 0, 0, 0, 0, 0>>, SizeJustFits, SizeOverflows,
           <<255, 255, 255, 255, 255, 255, 255, 254>>, UINT64_MAX}
AvailableValues == {U64(n) : n \in {0, 1, 10, 11, 109, 110}} \cup Edge64
SizeValues == {U64(n) : n \in {0, 1, 9, 10, 11, 100}} \cup Edge64
PreflightInputs == [available : AvailableValues, size : SizeValues, is_dir : BOOLEAN]
\* An empty destination directory /d and the final path /d/a in it.
EmptyDst == MkFs(<< <<<<n_d>>, DirNode>> >>)

\* The handlers' admission of one entry at a final path that does not exist,
\* with get_available_space returning fn_in.available (recv.c:304-329,
\* diskspace.c:70-86).
CallPreflight ==
    /\ Pending("preflight")
    /\ LET m == [name |-> n_a, size |-> fn_in.size, is_dir |-> fn_in.is_dir,
                 overwrite_mode |-> OVERWRITE_YES]
           sp == <<fn_in.available, fn_in.available>>
           h == Dispatch(EmptyDst, AbsPath(<<n_d, n_a>>), m, OVERWRITE_YES, <<>>, sp)
       IN  fn_out' = [done |-> TRUE, rc |-> h.rc, out |-> h.out,
                      has_enough_space |-> check_disk_space(fn_in.available, fn_in.size)]
    /\ UNCHANGED <<fn, fn_in, transferVars>>

\* The trees walked: /s holding any of a directory "-", files a and B and a
\* directory u, which holds any of a file b and a directory a.
n_B == <<66>>
WalkDirKeys == {<<n_s, n_dash>>, <<n_s, n_u>>, <<n_s, n_u, n_a>>}
WalkFileKeys == {<<n_s, n_a>>, <<n_s, n_B>>, <<n_s, n_u, n_b>>}
TreeFs(dirs, files) ==
    [k \in {<<>>, <<n_s>>} \cup dirs \cup files |->
        IF k \in files THEN FileNode(<<7>>) ELSE DirNode]
WalkTrees ==
    {TreeFs(t[1], t[2]) :
        t \in {x \in (SUBSET WalkDirKeys) \X (SUBSET WalkFileKeys) :
                  \A k \in x[1] \cup x[2] : Len(k) = 2 \/ Front(k) \in x[1]}}

\* walk_directory on the root directory /s of a tree (directory.c:180-209).
CallWalk ==
    /\ Pending("walk_directory")
    /\ fn_out' = [done |-> TRUE, entries |-> walk_directory(fn_in.fs, fn_in.root)]
    /\ UNCHANGED <<fn, fn_in, transferVars>>

\* The messages written: names and reasons absent, empty and not, sizes
\* 0, 1, 0x0102030405060708 and 2^64-1, every truth value and mode.
StringValues == {NULL, <<>>, n_a, n_u \o <<SLASH>> \o n_b}
Uint64Values == {U64(0), U64(1), <<1, 2, 3, 4, 5, 6, 7, 8>>, UINT64_MAX}
Messages ==
    [type : {MSG_META}, name : StringValues, size : Uint64Values,
     is_dir : BOOLEAN, overwrite_mode : OverwriteModes]
    \cup [type : {MSG_PREFLIGHT_OK}, available_space : Uint64Values]
    \cup [type : {MSG_PREFLIGHT_FAIL}, reason : StringValues]
    \cup [type : {MSG_TRANSFER_START}, file_size : Uint64Values]
    \cup [type : {MSG_TRANSFER_RESULT}, ok : BOOLEAN, received_bytes : Uint64Values]
\* The write_* call for a message.
write_message(m) ==
    IF m.type = MSG_META
    THEN write_meta(m.name, m.size, m.is_dir, m.overwrite_mode)
    ELSE IF m.type = MSG_PREFLIGHT_OK THEN write_preflight_ok(m.available_space)
    ELSE IF m.type = MSG_PREFLIGHT_FAIL THEN write_preflight_fail(m.reason)
    ELSE IF m.type = MSG_TRANSFER_START THEN write_transfer_start(m.file_size)
    ELSE write_transfer_result(m.ok, m.received_bytes)

\* A message is written to a stream and read back from it
\* (tests/test_protocol.c).
CallWriteRead ==
    /\ Pending("write_read")
    /\ LET bytes == write_message(fn_in)
       IN  fn_out' = [done |-> TRUE, bytes |-> bytes, back |-> read_message(bytes)]
    /\ UNCHANGED <<fn, fn_in, transferVars>>

\* Frames as a peer may send them: a written message whose length field
\* holds any of a few values, the right one among them.
LengthValues == {0, 4, 8, 9, 14, 15, 100}
WithLength(frame, length) == <<frame[1]>> \o htonl(length) \o Drop(frame, 5)
Frames ==
    {WithLength(write_message(m), l) :
        m \in {x \in Messages :
                  \/ x.type = MSG_META /\ x.size = U64(1) /\ x.name \in {NULL, n_a}
                  \/ x.type = MSG_PREFLIGHT_OK /\ x.available_space = U64(1)
                  \/ x.type = MSG_PREFLIGHT_FAIL
                  \/ x.type = MSG_TRANSFER_START /\ x.file_size = U64(1)
                  \/ x.type = MSG_TRANSFER_RESULT /\ x.received_bytes = U64(1)},
        l \in LengthValues}

\* One frame, after which the stream ends, read by each reader of the
\* program: the receiver waiting for a Meta and for a TransferStart, the
\* sender waiting for the preflight answer and for the TransferResult.
CallRead ==
    /\ Pending("read")
    /\ fn_out' = [done |-> TRUE,
                  meta |-> MetaParse(fn_in, TRUE).st,
                  start |-> StartParse(fn_in, TRUE).st,
                  preflight |-> PreflightParse(fn_in, TRUE).st,
                  result |-> ResultParse(fn_in, TRUE).st,
                  message |-> read_message(fn_in).rc]
    /\ UNCHANGED <<fn, fn_in, transferVars>>

\* calculate_total_size (directory.c:211-222): 0 for a null array, else the
\* sizes of the entries that are not directories, added up in 64 bits.
RECURSIVE SizeOfAll(_, _)
SizeOfAll(items, total) ==
    IF items = <<>> THEN total
    ELSE SizeOfAll(Tail(items), BytesAdd(total, U64(Head(items).size)))
RECURSIVE SizeOfFiles(_, _)
SizeOfFiles(items, total) ==
    IF items = <<>> THEN total
    ELSE SizeOfFiles(Tail(items),
                     IF ~Head(items).is_dir THEN BytesAdd(total, U64(Head(items).size))
                     ELSE total)
calculate_total_size_all(array) ==
    IF array.null THEN U64(0) ELSE SizeOfAll(array.entries, U64(0))
calculate_total_size(array) ==
    IF array.null THEN U64(0) ELSE SizeOfFiles(array.entries, U64(0))

\* The arrays it is given: up to MaxEntries entries, each a directory whose
\* size field is 0 or the 4096 that stat reports, or a file of 0, 5 or 8
\* bytes; and the null pointer.
MaxEntries == 5
EntryValues ==
    {create_file_entry(AbsPath(<<n_s>>), Dot, TRUE, 0),
     create_file_entry(AbsPath(<<n_s, n_u>>), n_u, TRUE, 4096),
     create_file_entry(AbsPath(<<n_s, n_a>>), n_a, FALSE, 0),
     create_file_entry(AbsPath(<<n_s, n_b>>), n_b, FALSE, 5),
     create_file_entry(AbsPath(<<n_s, n_f>>), n_f, FALSE, 8)}
EntryArrays ==
    {[null |-> TRUE, entries |-> <<>>]} \cup
    {[null |-> FALSE, entries |-> e] :
        e \in UNION {[1..n -> EntryValues] : n \in 0..MaxEntries}}

CallTotalSize ==
    /\ Pending("calculate_total_size")
    /\ fn_out' = [done |-> TRUE, total |-> calculate_total_size(fn_in)]
    /\ UNCHANGED <<fn, fn_in, transferVars>>

InitFn ==
    /\ NoTransfer
    /\ fn_out = [done |-> FALSE]
    /\ \/ fn = "preflight" /\ fn_in \in PreflightInputs
       \/ fn = "walk_directory"
          /\ fn_in \in [fs : WalkTrees, root : {AbsPath(<<n_s>>)}]
       \/ fn = "write_read" /\ fn_in \in Messages
       \/ fn = "read" /\ fn_in \in Frames
       \/ fn = "calculate_total_size" /\ fn_in \in EntryArrays

NextFn ==
    \/ CallPreflight
    \/ CallWalk
    \/ CallWriteRead
    \/ CallRead
    \/ CallTotalSize

SpecFn == InitFn /\ [][NextFn]_vars

(***************************************************************************)
(* One program against a peer that is not the other program: the peer has *)
(* written all it will ever write (fn_in) and closed its end, and the      *)
(* program runs on that.  The peer's bytes are a right conversation, a     *)
(* right conversation cut off at any byte, or one with a message replaced  *)
(* by another.                                                             *)
(***************************************************************************)
RECURSIVE Concat(_)
Concat(ss) == IF ss = <<>> THEN <<>> ELSE Head(ss) \o Concat(Tail(ss))
Prefixes(bytes) == {Take(bytes, n) : n \in 0..Len(bytes)}
\* The streams msgs with one message replaced by one of alts.
OneReplaced(msgs, alts) ==
    {Concat([msgs EXCEPT ![k] = a]) : k \in 1..Len(msgs), a \in alts}
\* One message of each type, and a byte that is no type.
AnyMessages ==
    {write_meta(n_x, U64(0), TRUE, OVERWRITE_YES), write_preflight_ok(U64(100)),
     write_preflight_fail(ReasonExists), write_transfer_start(U64(1)),
     write_transfer_result(TRUE, U64(0)), <<9, 0, 0, 0, 0>>}

\* What a sender of the directory ".", the file a of three bytes and the
\* empty file b writes when every entry is accepted.
SentMessages ==
    << write_meta(Dot, U64(0), TRUE, OVERWRITE_YES),
       write_meta(n_a, U64(3), FALSE, OVERWRITE_YES),
       write_transfer_start(U64(3)), <<7, 8, 9>>,
       write_meta(n_b, U64(0), FALSE, OVERWRITE_YES),
       write_transfer_start(U64(0)) >>
\* The names a peer may put in a Meta that no walk of the sender gives:
\* "../x", "/x", "a.ncp_temp"; and "u/b", which a walk gives after "u" only.
n_up_x == DotDot \o <<SLASH>> \o n_x
n_slash_x == <<SLASH>> \o n_x
n_a_temp == n_a \o NcpTempSuffix
n_u_b == n_u \o <<SLASH>> \o n_b
\* The bytes of one file entry: its Meta, its TransferStart, its payload.
FileStream(name, size, mode, start_size, data) ==
    write_meta(name, U64(size), FALSE, mode) \o write_transfer_start(U64(start_size)) \o data
\* What a peer that is not the sender may write: a TransferStart that
\* declares more than the Meta did, names that lead out of the destination,
\* the mode byte with each mode and with 3, which is no mode, a name that is another entry's temporary
\* path, a file whose parent directory was never sent.
HostileScripts ==
    { FileStream(n_a, 1, OVERWRITE_YES, 3, <<7, 8, 9>>),
      write_meta(n_up_x, U64(0), TRUE, OVERWRITE_YES),
      FileStream(n_up_x, 1, OVERWRITE_YES, 1, <<7>>),
      FileStream(n_slash_x, 1, OVERWRITE_YES, 1, <<7>>),
      FileStream(n_a, 1, OVERWRITE_ASK, 1, <<7>>),
      FileStream(n_a, 1, OVERWRITE_NO, 1, <<7>>),
      FileStream(n_a, 1, 3, 1, <<7>>),
      FileStream(n_a_temp, 1, OVERWRITE_YES, 1, <<8>>)
          \o FileStream(n_a, 1, OVERWRITE_YES, 1, <<7>>),
      FileStream(n_u_b, 1, OVERWRITE_YES, 1, <<7>>) }
ReceiverScripts ==
    Prefixes(Concat(SentMessages)) \cup OneReplaced(SentMessages, AnyMessages)
        \cup HostileScripts

\* What a receiver answers to the walk of SrcTree (".", u, a, u/b) when it
\* accepts every entry.
AnsweredMessages ==
    << write_preflight_ok(U64(0)), write_transfer_result(TRUE, U64(0)),
       write_preflight_ok(U64(0)), write_transfer_result(TRUE, U64(0)),
       write_preflight_ok(U64(100)), write_transfer_result(TRUE, U64(3)),
       write_preflight_ok(U64(100)), write_transfer_result(TRUE, U64(1)) >>
SenderScripts ==
    {Concat(SubSeq(AnsweredMessages, 1, n)) : n \in 0..Len(AnsweredMessages)}
        \cup OneReplaced(AnsweredMessages, AnyMessages)

\* handle_connection on the bytes of a peer that has gone.
InitReceiverAlone ==
    /\ fn = "handle_connection" /\ fn_in \in ReceiverScripts
    /\ srcFs = RootFs /\ src_path = <<>> /\ overwrite = OVERWRITE_YES
    /\ \E d \in DstConfigs : dstFs = d.fs /\ dst_path = d.path
    /\ recv_overwrite = OVERWRITE_YES
    /\ r2s = <<>> /\ rclosed = FALSE
    /\ spc = "done" /\ sret = 0 /\ sclosed = TRUE /\ s2r = fn_in
    /\ rpc = "meta" /\ rret = 1

\* The send operation of a directory against the answers of a peer that has
\* gone.
InitSenderAlone ==
    /\ fn = "send_directory" /\ fn_in \in SenderScripts
    /\ srcFs = SrcTree /\ src_path = AbsPath(<<n_s>>) /\ overwrite = OVERWRITE_YES
    /\ dstFs = RootFs /\ dst_path = <<>> /\ recv_overwrite = OVERWRITE_YES
    /\ s2r = <<>> /\ sclosed = FALSE
    /\ rpc = "closed" /\ rret = 0 /\ rclosed = TRUE /\ r2s = fn_in
    /\ spc = "start" /\ sret = -1

InitAlone ==
    /\ InitReceiverAlone \/ InitSenderAlone
    /\ fn_out = [done |-> FALSE]
    /\ entries = <<>> /\ si = 0 /\ total_sent = 0 /\ sfd = <<>>
    /\ rmeta = NoMeta /\ final_path = <<>> /\ file_size = Zeros(8) /\ total_bytes = 0
    /\ slog = <<>> /\ rlog = <<>>
    /\ fault = FALSE /\ changed = FALSE
    /\ pre = dstFs /\ dst0 = dstFs /\ run = 1 /\ past = <<>>

NextAlone ==
    \/ S_Start
    \/ S_SendMeta
    \/ S_Preflight
    \/ S_Content
    \/ S_Result
    \/ R_Meta
    \/ R_Start
    \/ R_Chunk

SpecAlone == InitAlone /\ [][NextAlone]_vars

(***************************************************************************)
(* The sender from its entry points: ncp_execute_send, which validates the *)
(* source, creates a socket and connects with retries, and                 *)
(* ncp_execute_send_listen, which validates the source and accepts one     *)
(* connection.  The peer's answers are scripted as above.  fn_out counts   *)
(* the sockets created and the calls of connect.                           *)
(***************************************************************************)
MaxRetries == 2

\* The test of stat's result (send.c:362, 445).
SourceMissingIgnored(st) == FALSE
SourceMissing(st) == st.rc # 0

\* The test that ends the retry loop with a failure (send.c:402).
LastAttemptOneLate(retry_count, retries) == retry_count = retries + 1
LastAttempt(retry_count, retries) == retry_count = retries

ConnectScripts ==
    {<<>>, write_preflight_fail(ReasonExists), Concat(AnsweredMessages)}
ConnectInputs ==
    [retries : 0..MaxRetries, host_ok : BOOLEAN, answers : ConnectScripts]
SourcePaths == {AbsPath(<<n_s>>), AbsPath(<<n_s, n_a>>), AbsPath(<<n_x>>)}

\* The entry point returns 1 before it has a connection (send.c:364, 378,
\* 389, 405).
ReturnsUnconnected ==
    /\ spc' = "done" /\ sret' = 1
    /\ slog' = Append(slog, Ev("ret", 1, <<>>))
    /\ UNCHANGED <<entries, si, total_sent, sfd, sclosed>>

\* stat of the source, socket(), and for ncp_execute_send inet_pton
\* (send.c:362-392, 445-455).
S_Validate ==
    /\ spc = "validate"
    /\ IF SourceMissing(stat(srcFs, src_path))
       THEN ReturnsUnconnected /\ UNCHANGED fn_out
       ELSE \E created \in BOOLEAN :
              IF ~created
              THEN ReturnsUnconnected /\ UNCHANGED fn_out
              ELSE /\ fn_out' = [fn_out EXCEPT !.sockets = @ + 1]
                   /\ IF fn = "ncp_execute_send" /\ ~fn_in.host_ok
                      THEN ReturnsUnconnected
                      ELSE /\ spc' = IF fn = "ncp_execute_send" THEN "connect" ELSE "accept"
                           /\ UNCHANGED <<entries, si, total_sent, sfd, sret, sclosed, slog>>
    /\ UNCHANGED <<srcFs, dstFs, src_path, overwrite, dst_path, recv_overwrite, fn, fn_in,
                   s2r, r2s, receiverVars, runVars, fault, changed>>

\* One turn of the retry loop: connect(), and on failure the last-attempt
\* test, else the count goes up after sleep(1) (send.c:396-413).
S_Connect ==
    /\ spc = "connect"
    /\ IF ~(fn_out.retry_count <= fn_in.retries)
       THEN /\ spc' = "start"
            /\ UNCHANGED <<fn_out, entries, si, total_sent, sfd, sret, sclosed, slog>>
       ELSE \E connected \in BOOLEAN :
              IF connected
              THEN /\ fn_out' = [fn_out EXCEPT !.attempts = @ + 1, !.connected = TRUE]
                   /\ spc' = "start"
                   /\ UNCHANGED <<entries, si, total_sent, sfd, sret, sclosed, slog>>
              ELSE IF LastAttempt(fn_out.retry_count, fn_in.retries)
              THEN /\ fn_out' = [fn_out EXCEPT !.attempts = @ + 1]
                   /\ ReturnsUnconnected
              ELSE /\ fn_out' = [fn_out EXCEPT !.attempts = @ + 1, !.retry_count = @ + 1]
                   /\ UNCHANGED <<spc, entries, si, total_sent, sfd, sret, sclosed, slog>>
    /\ UNCHANGED <<srcFs, dstFs, src_path, overwrite, dst_path, recv_overwrite, fn, fn_in,
                   s2r, r2s, receiverVars, runVars, fault, changed>>

\* setsockopt, bind, listen and accept of ncp_execute_send_listen: any of
\* them may fail (send.c:464-497).
S_Accept ==
    /\ spc = "accept"
    /\ \E accepted \in BOOLEAN :
         IF accepted
         THEN /\ fn_out' = [fn_out EXCEPT !.connected = TRUE]
              /\ spc' = "start"
              /\ UNCHANGED <<entries, si, total_sent, sfd, sret, sclosed, slog>>
         ELSE ReturnsUnconnected /\ UNCHANGED fn_out
    /\ UNCHANGED <<srcFs, dstFs, src_path, overwrite, dst_path, recv_overwrite, fn, fn_in,
                   s2r, r2s, receiverVars, runVars, fault, changed>>

InitConnect ==
    /\ fn \in {"ncp_execute_send", "ncp_execute_send_listen"}
    /\ fn_in \in ConnectInputs
    /\ fn = "ncp_execute_send_listen" => fn_in.retries = 0 /\ fn_in.host_ok
    /\ fn_out = [done |-> FALSE, sockets |-> 0, attempts |-> 0, retry_count |-> 0,
                 connected |-> FALSE]
    /\ srcFs = SrcTree /\ src_path \in SourcePaths /\ overwrite \in OverwriteModes
    /\ dstFs = RootFs /\ dst_path = <<>> /\ recv_overwrite = OVERWRITE_YES
    /\ s2r = <<>> /\ sclosed = FALSE
    /\ rpc = "closed" /\ rret = 0 /\ rclosed = TRUE /\ r2s = fn_in.answers
    /\ spc = "validate" /\ sret = -1
    /\ entries = <<>> /\ si = 0 /\ total_sent = 0 /\ sfd = <<>>
    /\ rmeta = NoMeta /\ final_path = <<>> /\ file_size = Zeros(8) /\ total_bytes = 0
    /\ slog = <<>> /\ rlog = <<>>
    /\ fault = FALSE /\ changed = FALSE
    /\ pre = dstFs /\ dst0 = dstFs /\ run = 1 /\ past = <<>>

NextConnect ==
    \/ S_Validate
    \/ S_Connect
    \/ S_Accept
    \/ S_Start
    \/ S_SendMeta
    \/ S_Preflight
    \/ S_Content
    \/ S_Result

SpecConnect == InitConnect /\ [][NextConnect]_vars

(***************************************************************************)
(* The C++ programs of src/cppsrc: execute_send against execute (the       *)
(* listening receiver).  The receiver accepts one connection and serves    *)
(* it; its listening socket stays open until it returns, so a later        *)
(* connect of the sender succeeds and is never served.  s2r and r2s are    *)
(* the first connection; fn_out counts the turns of execute_send's loop    *)
(* and the connections established.  Source files hold at most 8192 bytes, *)
(* one turn of the copy loops.                                             *)
(***************************************************************************)
\* protocol.cpp:8-22: to_be32, to_be64, from_be32, from_be64 swap the bytes.
bswap(v) == Reverse(v)
cpp_u32(n) == Stored(bswap(BE(n, 4)))
cpp_u64(v) == Stored(bswap(v))

\* protocol.cpp:24-42, 66-75, 87-100, 116-125, 137-148.
cpp_write_meta(name, size, is_dir) ==
    <<MSG_META>> \o cpp_u32(8 + 1 + 4 + Len(name)) \o cpp_u64(size)
        \o <<IF is_dir THEN 1 ELSE 0>> \o cpp_u32(Len(name)) \o name
cpp_write_preflight_ok(available_space) ==
    <<MSG_PREFLIGHT_OK>> \o cpp_u32(8) \o cpp_u64(available_space)
cpp_write_preflight_fail(reason) ==
    <<MSG_PREFLIGHT_FAIL>> \o cpp_u32(4 + Len(reason)) \o cpp_u32(Len(reason)) \o reason
cpp_write_transfer_start(size) ==
    <<MSG_TRANSFER_START>> \o cpp_u32(8) \o cpp_u64(size)
cpp_write_transfer_result(ok, received_bytes) ==
    <<MSG_TRANSFER_RESULT>> \o cpp_u32(9) \o <<IF ok THEN 1 ELSE 0>>
        \o cpp_u64(received_bytes)

\* handle_connection's reads of a Meta (recv.cpp:241-251, protocol.cpp:44-64).
\* The sender writes a Meta whole, so a Meta cut short is "block" or, on a
\* closed stream, "short", which no state of this specification reaches.
CppMetaParse(chan, closed) ==
    LET none == [st |-> "block", used |-> 0, name |-> <<>>, size |-> Zeros(8),
                 is_dir |-> FALSE]
    IN  IF Len(chan) = 0
        THEN [none EXCEPT !.st = IF closed THEN "eof" ELSE "block"]
        ELSE IF chan[1] # MSG_META THEN [none EXCEPT !.st = "badtype", !.used = 1]
        ELSE IF Len(chan) < 18 THEN [none EXCEPT !.st = Starved(closed)]
        ELSE LET name_len == NatOf(bswap(Loaded(SubSeq(chan, 15, 18))))
             IN  IF Len(chan) < 18 + name_len
                 THEN [none EXCEPT !.st = Starved(closed)]
                 ELSE [st |-> "ok", used |-> 18 + name_len,
                       name |-> SubSeq(chan, 19, 18 + name_len),
                       size |-> bswap(Loaded(SubSeq(chan, 6, 13))),
                       is_dir |-> chan[14] # 0]

\* wait_for_preflight (send.cpp:103-118).  The reads do not look at the
\* stream's state: when the stream has ended the type is whatever the
\* variable held ("ended").
CppPreflightParse(chan, closed) ==
    LET none == [st |-> "block", used |-> 0]
        ended == [none EXCEPT !.st = IF closed THEN "ended" ELSE "block"]
    IN  IF Len(chan) < 5 THEN ended
        ELSE IF chan[1] = MSG_PREFLIGHT_OK
        THEN IF Len(chan) < 13 THEN ended ELSE [st |-> "ok", used |-> 13]
        ELSE IF chan[1] = MSG_PREFLIGHT_FAIL
        THEN LET reason_len == IF Len(chan) < 9 THEN TooBig
                               ELSE NatOf(bswap(Loaded(SubSeq(chan, 6, 9))))
             IN  IF Len(chan) < 9 + reason_len THEN [ended EXCEPT !.st = Starved(closed)]
                 ELSE [st |-> "fail", used |-> 9 + reason_len]
        ELSE [st |-> "unexpected", used |-> 5]

\* The reads of the TransferResult in transfer_file_data (send.cpp:155-166).
CppResultParse(chan, closed) ==
    LET none == [st |-> "block", used |-> 0]
        ended == [none EXCEPT !.st = IF closed THEN "ended" ELSE "block"]
    IN  IF Len(chan) < 5 THEN ended
        ELSE IF chan[1] # MSG_TRANSFER_RESULT THEN [st |-> "unexpected", used |-> 5]
        ELSE IF Len(chan) < 14 THEN ended
        ELSE [st |-> IF chan[6] # 0 THEN "ok" ELSE "failed", used |-> 14]

\* walk_directory of directory.cpp:53-66: the entries walk_recursive
\* collects, sorted directories first and then by path (the paths of the
\* trees here compare as their strings do).
cpp_less(a, b) ==
    IF a.is_dir # b.is_dir THEN a.is_dir
    ELSE strcmp(a.relative_path, b.relative_path) < 0
RECURSIVE cpp_sort(_)
cpp_sort(S) ==
    IF S = {} THEN <<>>
    ELSE LET m == CHOOSE x \in S : \A y \in S \ {x} : cpp_less(x, y)
         IN  <<m>> \o cpp_sort(S \ {m})
cpp_walk_directory(fs, root) ==
    LET collected == walk_directory(fs, root)
    IN  cpp_sort({collected[i] : i \in 1..Len(collected)})

\* determine_final_path of recv.cpp:101-112.
cpp_determine_final_path(fs, dst, file_name, is_dir) ==
    LET st == stat(fs, dst)
    IN  IF st.rc = 0 /\ st.is_dir
        THEN [ok |-> TRUE, path |-> dst \o <<SLASH>> \o file_name]
        ELSE IF st.rc = 0 /\ is_dir THEN [ok |-> FALSE, path |-> <<>>]
        ELSE [ok |-> TRUE, path |-> dst]

\* std::filesystem::create_directories of an absolute path.
create_directories(fs, path) == MkdirLoop(fs, path, 2)
parent_path(path) == SubSeq(path, 1, LastSlash(path) - 1)

\* prompt_overwrite of recv.cpp:114-121: the line typed, in lower case, is
\* "y" or "yes".
cpp_prompt_overwrite(input) ==
    LET line == IF \E i \in 1..Len(input) : input[i] = 10
                THEN SubSeq(input, 1, (CHOOSE i \in 1..Len(input) :
                        input[i] = 10 /\ \A j \in 1..(i - 1) : input[j] # 10) - 1)
                ELSE input
        lower == [i \in 1..Len(line) |-> tolower(line[i])]
    IN  lower = <<121>> \/ lower = <<121, 101, 115>>

\* check_disk_space of diskspace.cpp:54-67.
cpp_check_disk_space(available, required_bytes) ==
    LET buffer == BytesDiv10(required_bytes)
        sum == BytesAdd(required_bytes, buffer)
        required_with_buffer == IF BytesLess(sum, required_bytes) THEN UINT64_MAX ELSE sum
    IN  ~BytesLess(available, required_with_buffer)

\* handle_directory_entry of recv.cpp:123-144: what it leaves and writes.
cpp_handle_directory_entry(fs, path, overwrite_mode, input) ==
    LET ok == [rc |-> 0, out |-> cpp_write_preflight_ok(U64(0)),
               ev |-> <<Ev("wrOk", 0, U64(0))>>]
    IN  IF stat(fs, path).rc # 0
        THEN LET c == create_directories(fs, path)
             IN  IF c.rc # 0 THEN [rc |-> -1, fs |-> fs, out |-> <<>>, ev |-> <<>>]
                 ELSE [rc |-> 0, fs |-> c.fs, out |-> ok.out, ev |-> ok.ev]
        ELSE IF overwrite_mode = OVERWRITE_ASK /\ ~cpp_prompt_overwrite(input)
        THEN [rc |-> 0, fs |-> fs, out |-> cpp_write_preflight_fail(ReasonDeclinedDir),
              ev |-> <<Ev("prompt", 0, input), Ev("wrFail", 0, ReasonDeclinedDir)>>]
        ELSE [rc |-> 0, fs |-> fs, out |-> ok.out,
              ev |-> (IF overwrite_mode = OVERWRITE_ASK
                      THEN <<Ev("prompt", 1, input)>> ELSE <<>>) \o ok.ev]

\* handle_file_entry of recv.cpp:146-186, up to its answer to the Meta:
\* rc 0 and accepted, rc 0 and rejected (it returns), or rc -1 (it throws).
cpp_file_preflight(fs, path, size, overwrite_mode, input, available_space) ==
    LET exists == stat(fs, path).rc = 0
        asked == exists /\ overwrite_mode = OVERWRITE_ASK
        pev == IF asked THEN <<Ev("prompt", IF cpp_prompt_overwrite(input) THEN 1 ELSE 0,
                                  input)>>
               ELSE <<>>
        parent == parent_path(path)
        c == IF parent = <<>> \/ parent = <<SLASH>> THEN [rc |-> 0, fs |-> fs]
             ELSE create_directories(fs, parent)
        reason == InsufficientSpaceReason(available_space, size)
    IN  IF asked /\ ~cpp_prompt_overwrite(input)
        THEN [rc |-> 0, accepted |-> FALSE, fs |-> fs,
              out |-> cpp_write_preflight_fail(ReasonDeclined),
              ev |-> pev \o <<Ev("wrFail", 0, ReasonDeclined)>>]
        ELSE IF exists /\ overwrite_mode = OVERWRITE_NO
        THEN [rc |-> 0, accepted |-> FALSE, fs |-> fs,
              out |-> cpp_write_preflight_fail(ReasonExists),
              ev |-> <<Ev("wrFail", 0, ReasonExists)>>]
        ELSE IF c.rc # 0
        THEN [rc |-> -1, accepted |-> FALSE, fs |-> fs, out |-> <<>>, ev |-> pev]
        ELSE IF ~cpp_check_disk_space(available_space, size)
        THEN [rc |-> -1, accepted |-> FALSE, fs |-> c.fs,
              out |-> cpp_write_preflight_fail(reason),
              ev |-> pev \o <<Ev("wrFail", 0, reason)>>]
        ELSE [rc |-> 0, accepted |-> TRUE, fs |-> c.fs,
              out |-> cpp_write_preflight_ok(available_space),
              ev |-> pev \o <<Ev("wrOk", 0, available_space)>>]

\* The connection the sender is on is the one the receiver serves.
OnServed == fn_out.connections = 1
\* What the sender can read, and what becomes of what it writes.
CppAnswers == IF OnServed THEN r2s ELSE <<>>
CppDeliver(bytes) == IF OnServed /\ ~rclosed THEN s2r \o bytes ELSE s2r

\* An exception leaves attempt_transfer: the Socket is destroyed, and
\* execute_send catches it, sleeps and goes to the next turn of its loop
\* (send.cpp:265-281).
CppCaught(evs) ==
    /\ fn_out' = [fn_out EXCEPT !.attempt = @ + 1]
    /\ spc' = "loop"
    /\ sclosed' = (sclosed \/ OnServed)
    /\ slog' = slog \o evs \o <<Ev("caught", fn_out.attempt, <<>>)>>
    /\ UNCHANGED <<entries, si, sret>>
\* The entry is done: the next one, or attempt_transfer returns and
\* execute_send with it (send.cpp:183-203, 239, 268-270).
CppAfterEntry(evs) ==
    IF si < Len(entries)
    THEN /\ si' = si + 1 /\ spc' = "meta" /\ slog' = slog \o evs
         /\ UNCHANGED <<entries, sret, sclosed, fn_out>>
    ELSE /\ spc' = "done" /\ sret' = 0
         /\ sclosed' = (sclosed \/ OnServed)
         /\ slog' = slog \o evs \o <<Ev("ret", 0, <<>>)>>
         /\ UNCHANGED <<entries, si, fn_out>>

\* One turn of execute_send's loop up to the first write: the loop test,
\* socket and connect of attempt_transfer, the walk (send.cpp:262-268,
\* 215-238, 168-181).  After the last turn the last exception is rethrown.
X_Attempt ==
    /\ spc = "loop"
    /\ IF ~(fn_out.attempt <= fn_in.retries)
       THEN /\ spc' = "done" /\ sret' = 1
            /\ slog' = Append(slog, Ev("ret", 1, <<>>))
            /\ UNCHANGED <<entries, si, sclosed, fn_out>>
       ELSE \E connected \in (IF rpc = "closed" THEN {FALSE} ELSE BOOLEAN) :
              IF ~connected
              THEN /\ fn_out' = [fn_out EXCEPT !.attempt = @ + 1]
                   /\ slog' = Append(slog, Ev("refused", fn_out.attempt, <<>>))
                   /\ UNCHANGED <<spc, entries, si, sret, sclosed>>
              ELSE /\ fn_out' = [fn_out EXCEPT !.connections = @ + 1]
                   /\ entries' = IF stat(srcFs, src_path).is_dir
                                 THEN cpp_walk_directory(srcFs, src_path)
                                 ELSE <<create_file_entry(src_path, BaseName(src_path),
                                            FALSE, stat(srcFs, src_path).size)>>
                   /\ si' = 1 /\ spc' = "meta"
                   /\ slog' = Append(slog, Ev("connect", fn_out.attempt, <<>>))
                   /\ UNCHANGED <<sret, sclosed>>
    /\ UNCHANGED <<srcFs, dstFs, src_path, overwrite, dst_path, recv_overwrite, fn, fn_in,
                   s2r, r2s, total_sent, sfd, receiverVars, runVars, fault, changed>>

\* write_meta of the current entry (send.cpp:171-173, 189-196).
X_SendMeta ==
    /\ spc = "meta"
    /\ LET e == entries[si]
       IN  /\ s2r' = CppDeliver(cpp_write_meta(e.relative_path, U64(e.size), e.is_dir))
           /\ slog' = Append(slog, Ev("wrMeta", si, e.relative_path))
    /\ spc' = "preflight"
    /\ UNCHANGED <<srcFs, dstFs, config, r2s, entries, si, total_sent, sfd, sret, sclosed,
                   receiverVars, runVars, fault, changed>>

\* wait_for_preflight, and for a file transfer_file_data up to its read of
\* the result (send.cpp:103-118, 120-153, 197-201).
X_Preflight ==
    /\ spc = "preflight"
    /\ LET p == CppPreflightParse(CppAnswers, rclosed)
           e == entries[si]
       IN  /\ p.st # "block"
           /\ r2s' = IF OnServed THEN Drop(r2s, p.used) ELSE r2s
           /\ \E taken \in (IF p.st \in {"ended", "short"} THEN {"ok", "fail"} ELSE {p.st}) :
                IF taken # "ok"
                THEN CppCaught(<<Ev(IF taken = "fail" THEN "rdFail" ELSE "rdBad", si, <<>>)>>)
                     /\ s2r' = s2r
                ELSE IF e.is_dir
                THEN CppAfterEntry(<<Ev("rdOk", si, <<>>)>>) /\ s2r' = s2r
                ELSE \E opened \in BOOLEAN :
                       IF ~opened
                       THEN /\ CppCaught(<<Ev("rdOk", si, <<>>), Ev("wrStart", e.size, <<>>)>>)
                            /\ s2r' = CppDeliver(cpp_write_transfer_start(U64(e.size)))
                       ELSE /\ s2r' = CppDeliver(cpp_write_transfer_start(U64(e.size))
                                         \o srcFs[Lookup(srcFs, e.path).key].data)
                            /\ spc' = "result"
                            /\ slog' = slog \o <<Ev("rdOk", si, <<>>),
                                                 Ev("wrStart", e.size, <<>>),
                                                 Ev("wrData", e.size, <<>>)>>
                            /\ UNCHANGED <<entries, si, sret, sclosed, fn_out>>
    /\ UNCHANGED <<srcFs, dstFs, src_path, overwrite, dst_path, recv_overwrite, fn, fn_in,
                   total_sent, sfd, receiverVars, runVars, fault, changed>>

\* The read of the TransferResult of a file (send.cpp:155-166).
X_Result ==
    /\ spc = "result"
    /\ LET p == CppResultParse(CppAnswers, rclosed)
       IN  /\ p.st # "block"
           /\ r2s' = IF OnServed THEN Drop(r2s, p.used) ELSE r2s
           /\ \E taken \in (IF p.st = "ended" THEN {"ok", "failed"} ELSE {p.st}) :
                IF taken = "ok" THEN CppAfterEntry(<<Ev("rdResult", 1, <<>>)>>)
                ELSE CppCaught(<<Ev("rdBad", si, <<>>)>>)
    /\ UNCHANGED <<srcFs, dstFs, src_path, overwrite, dst_path, recv_overwrite, fn, fn_in,
                   s2r, total_sent, sfd, receiverVars, runVars, fault, changed>>

\* handle_connection ends: it returns at the end of the stream, or an
\* exception leaves it and execute (recv.cpp:234-265, 309-319).
CppReceiverEnds(rc, evs, fs) ==
    /\ rpc' = "closed" /\ rret' = rc /\ rclosed' = TRUE
    /\ rlog' = rlog \o evs \o <<Ev("close", rc, <<>>)>>
    /\ dstFs' = fs

\* One turn of handle_connection's loop up to the handler's return or to
\* its read of the TransferStart (recv.cpp:238-259, 123-186).
Y_Meta ==
    /\ rpc = "meta"
    /\ LET m == CppMetaParse(s2r, sclosed)
           fp == cpp_determine_final_path(dstFs, dst_path, m.name, m.is_dir)
           read == <<Ev("rdMeta", IF m.is_dir THEN 1 ELSE 0, m.name)>>
       IN  /\ m.st \in {"eof", "badtype", "ok"}
           /\ s2r' = Drop(s2r, m.used)
           /\ IF m.st = "eof"
              THEN CppReceiverEnds(0, <<>>, dstFs) /\ UNCHANGED <<r2s, rmeta, final_path>>
              ELSE IF m.st = "badtype"
              THEN CppReceiverEnds(1, <<Ev("rdBad", 0, <<>>)>>, dstFs)
                   /\ UNCHANGED <<r2s, rmeta, final_path>>
              ELSE /\ rmeta' = [name |-> m.name, size |-> m.size, is_dir |-> m.is_dir,
                                overwrite_mode |-> recv_overwrite]
                   /\ final_path' = fp.path
                   /\ IF ~fp.ok
                      THEN CppReceiverEnds(1, read, dstFs) /\ r2s' = r2s
                      ELSE \E input \in UserInputs, available \in {U64(0), U64(100)} :
                             LET h == IF m.is_dir
                                      THEN cpp_handle_directory_entry(dstFs, fp.path,
                                               recv_overwrite, input)
                                           @@ [accepted |-> FALSE]
                                      ELSE cpp_file_preflight(dstFs, fp.path, m.size,
                                               recv_overwrite, input, available)
                             IN  /\ r2s' = r2s \o h.out
                                 /\ IF h.rc # 0
                                    THEN CppReceiverEnds(1, read \o h.ev, h.fs)
                                    ELSE /\ rpc' = IF h.accepted THEN "start" ELSE "meta"
                                         /\ dstFs' = h.fs
                                         /\ rlog' = rlog \o read \o h.ev
                                         /\ UNCHANGED <<rret, rclosed>>
    /\ UNCHANGED <<srcFs, config, senderVars, runVars, fault, changed, file_size,
                   total_bytes, pre>>

\* handle_file_entry from its read of the TransferStart on
\* (recv.cpp:188-231).  read_exact_bytes does not report a stream that
\* ended: the bytes that did not come are the zeros the buffer held.  The
\* sender writes a TransferStart whole.
Y_File ==
    /\ rpc = "start"
    /\ s2r # <<>>
    /\ IF s2r[1] # MSG_TRANSFER_START
       THEN /\ CppReceiverEnds(1, <<Ev("rdBad", 0, <<>>)>>, dstFs)
            /\ s2r' = Tail(s2r) /\ r2s' = r2s
       ELSE /\ Len(s2r) >= 13
            /\ LET size == bswap(Loaded(SubSeq(s2r, 6, 13)))
                   n == NatOf(size)
                   came == Min(n, Len(s2r) - 13)
                   data == SubSeq(s2r, 14, 13 + came) \o Zeros(n - came)
                   o == fopen_wb(dstFs, TempPath(final_path))
                   r == rename(fwrite(o.fs, TempPath(final_path), data),
                               TempPath(final_path), final_path)
               IN  /\ n < TooBig
                   /\ Len(s2r) >= 13 + n \/ sclosed
                   /\ s2r' = Drop(s2r, 13 + came)
                   /\ IF o.rc # 0
                      THEN CppReceiverEnds(1, <<Ev("rdStart", 0, size)>>, dstFs) /\ r2s' = r2s
                      ELSE IF r.rc # 0
                      THEN CppReceiverEnds(1, <<Ev("rdStart", 0, size)>>,
                                           fwrite(o.fs, TempPath(final_path), data))
                           /\ r2s' = r2s
                      ELSE /\ rpc' = "meta"
                           /\ dstFs' = r.fs
                           /\ r2s' = r2s \o cpp_write_transfer_result(TRUE, size)
                           /\ rlog' = rlog \o <<Ev("rdStart", 0, size),
                                                Ev("rename", n, final_path),
                                                Ev("wrResult", 1, size)>>
                           /\ UNCHANGED <<rret, rclosed>>
    /\ UNCHANGED <<srcFs, config, senderVars, runVars, fault, changed, rmeta, final_path,
                   file_size, total_bytes, pre>>

InitCpp ==
    /\ fn = "execute_send"
    /\ fn_in \in [retries : 0..MaxRetries]
    /\ fn_out = [done |-> FALSE, attempt |-> 1, connections |-> 0]
    /\ srcFs = SrcTree /\ src_path \in {AbsPath(<<n_s>>), AbsPath(<<n_s, n_a>>)}
    /\ overwrite = OVERWRITE_YES
    /\ \E d \in DstConfigs : dstFs = d.fs /\ dst_path = d.path
    /\ recv_overwrite \in OverwriteModes
    /\ s2r = <<>> /\ r2s = <<>> /\ sclosed = FALSE /\ rclosed = FALSE
    /\ spc = "loop" /\ sret = -1
    /\ rpc = "meta" /\ rret = 1
    /\ entries = <<>> /\ si = 0 /\ total_sent = 0 /\ sfd = <<>>
    /\ rmeta = NoMeta /\ final_path = <<>> /\ file_size = Zeros(8) /\ total_bytes = 0
    /\ slog = <<>> /\ rlog = <<>>
    /\ fault = FALSE /\ changed = FALSE
    /\ pre = dstFs /\ dst0 = dstFs /\ run = 1 /\ past = <<>>

NextCpp ==
    \/ X_Attempt
    \/ X_SendMeta
    \/ X_Preflight
    \/ X_Result
    \/ Y_Meta
    \/ Y_File

SpecCpp == InitCpp /\ [][NextCpp]_vars

(***************************************************************************)
(* Properties.                                                             *)
(***************************************************************************)
\* The node a path resolves to, "none" when it resolves to nothing.
NodeAt(fs, path) ==
    LET r == Lookup(fs, path)
    IN  IF r.st = "found" THEN fs[r.key] ELSE [kind |-> "none", data |-> <<>>]
IsDirAt(fs, path) == NodeAt(fs, path).kind = "dir"
IsFileAt(fs, path) == NodeAt(fs, path).kind = "file"
\* The source of the transfer is a directory (send_directory runs).
SrcIsDir == stat(srcFs, src_path).is_dir
\* The index of the last event before position i whose name is in names.
LastBefore(log, i, names) ==
    LET S == {j \in 1..(i - 1) : log[j].e \in names}
    IN  IF S = {} THEN 0 ELSE CHOOSE j \in S : \A k \in S : k <= j
Replies == {"wrOk", "wrFail"}
\* Event j of the receiver answers the Meta read just before it.
AnswersMeta(i, j) ==
    /\ rlog[i].e = "rdMeta" /\ rlog[j].e \in Replies
    /\ \A k \in (i + 1)..(j - 1) : rlog[k].e = "prompt"

\* C1: every Meta the receiver has read is answered by exactly one
\* PreflightOk or PreflightFail: the answer is the receiver's next write
\* after the Meta and comes before the connection is closed, and every
\* answer follows a Meta of its own.
C1_EveryMetaAnswered ==
    /\ \A i \in 1..Len(rlog) :
          rlog[i].e = "rdMeta" => \E j \in (i + 1)..Len(rlog) : AnswersMeta(i, j)
    /\ \A j \in 1..Len(rlog) :
          rlog[j].e \in Replies => \E i \in 1..(j - 1) : AnswersMeta(i, j)

\* C2: in a directory transfer, a PreflightFail read by the sender is the
\* last thing it does on the connection: no TransferStart, no payload and no
\* later Meta follow, and the send operation returns failure.
C2_FailAbortsDirectory ==
    SrcIsDir =>
        \A i \in 1..Len(slog) :
            slog[i].e = "rdFail" =>
                /\ Len(slog) = i + 1
                /\ slog[i + 1] = Ev("ret", 1, <<>>)
                /\ spc = "done" /\ sret = 1
\* A directory transfer refused at an entry that is not the last one.
C2_FailBeforeLastEntry ==
    /\ SrcIsDir /\ spc = "done" /\ sret = 1
    /\ \E i \in 1..Len(slog) : slog[i].e = "rdFail" /\ slog[i].i < Len(entries)

\* C3: a PreflightFail does not end the receiver's session: after writing
\* it the receiver waits for the next Meta, and what follows in its log is
\* the next Meta or the end of the stream.
C3_RejectKeepsSession ==
    \A i \in 1..Len(rlog) :
        rlog[i].e = "wrFail" =>
            IF i = Len(rlog) THEN rpc = "meta"
            ELSE \/ rlog[i + 1].e \in {"rdMeta", "rdBad"}
                 \/ rlog[i + 1] = Ev("close", 0, <<>>)

\* C4: every TransferStart and every payload write of the sender belongs to
\* a file entry whose Meta was answered by PreflightOk: the last Meta written
\* before it is a file's, and a PreflightOk and no PreflightFail was read in
\* between.
C4_ContentOnlyAfterOk ==
    \A i \in 1..Len(slog) :
        slog[i].e \in {"wrStart", "wrData"} =>
            LET m == LastBefore(slog, i, {"wrMeta"})
            IN  /\ m > 0
                /\ ~entries[slog[m].i].is_dir
                /\ \E j \in (m + 1)..(i - 1) : slog[j].e = "rdOk"
                /\ \A j \in (m + 1)..(i - 1) : slog[j].e # "rdFail"
\* A finished directory transfer in which a directory was accepted and a
\* file's content was sent.
C4_DirectoryAndFileSent ==
    /\ spc = "done" /\ sret = 0
    /\ \E i \in 1..Len(slog) : slog[i].e = "rdOk" /\ entries[slog[i].i].is_dir
    /\ \E i \in 1..Len(slog) : slog[i].e = "wrData"

\* C5: for an accepted directory entry the receiver has the directory at
\* the final path and writes PreflightOk{0} and at once TransferResult{ok, 0},
\* so that the result is on the wire whenever the sender waits for it; and
\* the sender reads that result before it does anything else.
C5_DirectoryHandshake ==
    /\ \A j \in 1..Len(rlog) :
          (rlog[j].e = "wrOk" /\ rlog[LastBefore(rlog, j, {"rdMeta"})].i = 1) =>
              /\ rlog[j].r = U64(0)
              /\ j < Len(rlog)
              /\ rlog[j + 1] = Ev("wrResult", 1, U64(0))
    /\ (rpc = "meta" /\ Len(rlog) >= 2 /\ rlog[Len(rlog) - 1].e = "wrOk") =>
          (rmeta.is_dir /\ IsDirAt(dstFs, final_path))
    /\ (spc = "result" /\ entries[si].is_dir) =>
          (Len(r2s) >= 14 /\ Take(r2s, 14) = write_transfer_result(TRUE, U64(0)))
    /\ \A i \in 1..(Len(slog) - 1) :
          (slog[i].e = "rdOk" /\ entries[slog[i].i].is_dir) =>
              slog[i + 1].e \in {"rdResult", "rdBad"}
\* The sender has read the result of the first directory entry, which the
\* receiver created, and is about to send the second entry.
C5_DirectoryCreated ==
    /\ spc = "meta" /\ si = 2 /\ entries[1].is_dir
    /\ slog[Len(slog)].e = "rdResult"
    /\ IsDirAt(dstFs, dst_path) /\ ~IsDirAt(dst0, dst_path)

\* The payload bytes the sender has written from position from of its log on.
RECURSIVE DataSum(_, _)
DataSum(log, from) ==
    IF from > Len(log) THEN 0
    ELSE (IF log[from].e = "wrData" THEN log[from].i ELSE 0) + DataSum(log, from + 1)

\* C6: after the TransferStart of the current entry the sender has written
\* at most the announced file_size bytes of payload, and exactly file_size
\* once it waits for the TransferResult, whatever the source file holds when
\* it is read.
C6_PayloadIsFileSize ==
    LET m == LastBefore(slog, Len(slog) + 1, {"wrStart"})
        sent == DataSum(slog, m + 1)
    IN  (m > 0 /\ LastBefore(slog, Len(slog) + 1, {"wrMeta"}) < m) =>
            /\ sent <= slog[m].i
            /\ spc = "result" => sent = slog[m].i

C8_FailureCleansUp ==
    \A i \in 1..Len(rlog) :
        rlog[i].e \in {"rdShort", "wrShort"} =>
            /\ Len(rlog) = i + 1
            /\ rlog[i + 1] = Ev("close", -1, <<>>)
            /\ rpc = "closed" /\ rret = -1
            /\ NodeAt(dstFs, TempPath(final_path)).kind = "none"
            /\ NodeAt(dstFs, final_path) = NodeAt(pre, final_path)
            /\ \A j \in (LastBefore(rlog, i, {"rdStart"}) + 1)..i :
                   rlog[j].e # "wrResult"
\* The stream ended after a part of the payload of a file that was to
\* replace an older one.
C8_StreamEndedMidFile ==
    /\ rpc = "closed" /\ Len(rlog) >= 2
    /\ rlog[Len(rlog) - 1].e = "rdShort" /\ rlog[Len(rlog) - 1].i > 0
    /\ IsFileAt(pre, final_path)

\* The path of an entry below the destination directory.
DestPath(relative_path) == dst_path \o <<SLASH>> \o relative_path
IsSuffix(suffix, s) ==
    Len(suffix) <= Len(s) /\ SubSeq(s, Len(s) - Len(suffix) + 1, Len(s)) = suffix
NoTempLeft(fs) ==
    \A k \in DOMAIN fs : k # <<>> => ~IsSuffix(NcpTempSuffix, k[Len(k)])
\* A directory transfer to a destination that did not exist has ended well
\* on both sides, with no injected failure and no source file changed.
CleanDirectoryTransfer ==
    /\ SrcIsDir /\ spc = "done" /\ rpc = "closed" /\ sret = 0 /\ rret = 0
    /\ ~fault /\ ~changed
    /\ Lookup(dst0, dst_path).st = "absent"

\* C9: after a clean directory transfer to a fresh destination there is a
\* directory at dest/relative_path for every directory entry of the walk, a
\* file of the source's size for every file entry, and no .ncp_temp file.
C9_TreeReproduced ==
    CleanDirectoryTransfer =>
        /\ \A i \in 1..Len(entries) :
              LET p == DestPath(entries[i].relative_path)
              IN  IF entries[i].is_dir THEN IsDirAt(dstFs, p)
                  ELSE /\ IsFileAt(dstFs, p)
                       /\ Len(NodeAt(dstFs, p).data) = entries[i].size
        /\ NoTempLeft(dstFs)

\* The final path of a single-file transfer on the filesystem of the run's
\* beginning.
SingleFinalOn(fs) == determine_final_path(fs, dst_path, BaseName(src_path), FALSE).path
SingleFinal == SingleFinalOn(dst0)
\* A single file is sent under mode No and its final path exists on fs.
SkipCaseOn(fs) ==
    ~SrcIsDir /\ overwrite = OVERWRITE_NO /\ stat(fs, SingleFinalOn(fs)).rc = 0
SkipCase == SkipCaseOn(dst0)
BothReturned == spc = "done" /\ rpc = "closed"

\* C10: a single file sent under overwrite mode No to a final path that
\* exists is answered PreflightFail "File exists, skipping"; the sender
\* writes no TransferStart and no payload, the receiver's filesystem stays
\* as it was, and a repeated run ends with the same logs on both sides and
\* the same filesystem.
C10_NoModeSkipsExisting ==
    SkipCase =>
        /\ \A i \in 1..Len(slog) : slog[i].e \notin {"wrStart", "wrData"}
        /\ dstFs = dst0
        /\ \A i \in 1..Len(rlog) :
              rlog[i].e \in Replies => rlog[i] = Ev("wrFail", 0, ReasonExists)
        /\ rpc = "closed" =>
              rlog = <<Ev("rdMeta", 0, BaseName(src_path)),
                       Ev("wrFail", 0, ReasonExists), Ev("close", -1, <<>>)>>
        /\ spc = "done" =>
              (sret = 1 /\ \E i \in 1..Len(slog) : slog[i].e = "rdFail")
        /\ BothReturned =>
              \A k \in 1..Len(past) :
                SkipCaseOn(past[k].before) =>
                  /\ past[k].rlog = rlog /\ past[k].slog = slog
                  /\ past[k].sret = sret /\ past[k].rret = rret
                  /\ past[k].before = dst0 /\ past[k].after = dstFs
\* The second run of such a transfer onto an existing file has ended.
C10_SkippedTwice ==
    /\ SkipCase /\ BothReturned /\ run = 2
    /\ SkipCaseOn(past[1].before)
    /\ IsFileAt(dst0, SingleFinal)

\* The receiver's log position of the Meta that rmeta, final_path and pre
\* belong to (0 before the first Meta).
LastMeta == LastBefore(rlog, Len(rlog) + 1, {"rdMeta"})
\* The reply written to that Meta, "none" when there is none.
LastReply ==
    LET S == {j \in (LastMeta + 1)..Len(rlog) : rlog[j].e \in Replies}
    IN  IF LastMeta = 0 \/ S = {} THEN "none"
        ELSE rlog[CHOOSE j \in S : \A k \in S : j <= k].e
\* The receiver prompted for that Meta; the answer when it did.
LastPrompts == {j \in (LastMeta + 1)..Len(rlog) : rlog[j].e = "prompt"}

\* C11: under the No policy a directory entry whose final path is occupied
\* by an object that is not a directory is refused with PreflightFail, and
\* the object stays as it was.
C11_NoKeepsNonDirectory ==
    (/\ LastMeta > 0 /\ rmeta.is_dir /\ rmeta.overwrite_mode = OVERWRITE_NO
     /\ final_path # <<>> /\ IsFileAt(pre, final_path)) =>
        /\ LastReply = "wrFail"
        /\ NodeAt(dstFs, final_path) = NodeAt(pre, final_path)

\* What the user typed is a refusal: nothing, an empty line or "n".
Negative(input) == input \in {<<>>, <<10>>, <<110, 10>>}

\* C12: the receiver prompts only for a Meta whose overwrite_mode is Ask and
\* whose final path exists, never under Yes or No and never for a path that
\* does not exist; when the answer is negative or empty it writes
\* PreflightFail and the final path stays as it was.
C12_PromptOnlyAskExisting ==
    \A j \in LastPrompts :
        /\ rmeta.overwrite_mode = OVERWRITE_ASK
        /\ final_path # <<>>
        /\ NodeAt(pre, final_path).kind # "none"
        /\ Negative(rlog[j].r) => rlog[j].i = 0
        /\ rlog[j].i = 0 =>
              /\ LastReply = "wrFail"
              /\ NodeAt(dstFs, final_path) = NodeAt(pre, final_path)
\* An empty answer at the prompt for an existing file, refused.
C12_EmptyAnswerDeclines ==
    /\ \E j \in LastPrompts : rlog[j].r = <<10>> /\ rlog[j].i = 0
    /\ ~rmeta.is_dir /\ IsFileAt(pre, final_path)
    /\ LastReply = "wrFail" /\ rret = -1

\* What the handlers would do for the Meta at the head of the stream if
\* the receiver had been started with overwrite mode o.
WouldDo(o, input, sp) ==
    LET m == MetaParse(s2r, sclosed)
        fp == determine_final_path(dstFs, dst_path, m.name, m.is_dir)
    IN  Dispatch(dstFs, fp.path, m, o, input, sp)
\* The Meta at the head of the stream reaches a handler.
MetaDispatched ==
    LET m == MetaParse(s2r, sclosed)
    IN  /\ rpc = "meta" /\ m.st = "ok"
        /\ ~NullNameDeref(dstFs, dst_path, m.name)
        /\ determine_final_path(dstFs, dst_path, m.name, m.is_dir).ok
\* C13: the overwrite decision depends on the overwrite_mode of the Meta
\* alone: for the Meta the receiver is about to handle, whatever is typed at
\* the prompt and whatever space is free, the handlers write the same bytes,
\* return the same code, go through the same events and leave the same
\* filesystem under each overwrite mode the receiver may have been started
\* with as under the one it was started with.
C13_ReceiverModeIgnored ==
    MetaDispatched =>
        \A input \in UserInputs, sp \in SpaceReadings :
            \A o \in OverwriteModes \ {recv_overwrite} :
                WouldDo(o, input, sp) = WouldDo(recv_overwrite, input, sp)
\* A receiver started with Yes has refused an existing file because the
\* Meta said No.
C13_MetaNoBeatsReceiverYes ==
    /\ recv_overwrite = OVERWRITE_YES /\ rmeta.overwrite_mode = OVERWRITE_NO
    /\ ~rmeta.is_dir /\ IsFileAt(pre, final_path)
    /\ LastReply = "wrFail" /\ IsFileAt(dstFs, final_path)

\* C15: when the destination path is an existing regular file and the Meta
\* of a directory has been read, the receiver answers it with PreflightFail
\* and the filesystem is as it was.
C15_DirectoryOntoFileRejected ==
    (LastMeta > 0 /\ rmeta.is_dir /\ IsFileAt(pre, dst_path)) =>
        /\ LastReply = "wrFail"
        /\ dstFs = pre

\* Natural-number arithmetic on big-endian byte strings wide enough not to
\* wrap: a uint64_t as ten bytes, and k times w by repeated addition.
Wide(b) == <<0, 0>> \o b
RECURSIVE Times(_, _)
Times(w, k) == IF k = 0 THEN Zeros(Len(w)) ELSE BytesAdd(Times(w, k - 1), w)
\* available >= size + size div 10 over the naturals, which is
\* 11 * size < 10 * available + 10.
Enough(available, size) ==
    BytesLess(Times(Wide(size), 11), BytesAdd(Times(Wide(available), 10), BE(10, 10)))

\* C14: check_disk_space admits a file exactly when the available space is
\* at least size + size div 10 as natural numbers (so a sum beyond 2^64-1 is
\* never met and nothing wraps around), for every available value other than
\* the error value; the file handler answers PreflightOk in exactly that
\* case and PreflightFail otherwise, and a directory entry is accepted
\* whatever the available space is.
C14_AdmitsExactlyWithMargin ==
    Returned("preflight") =>
        /\ fn_in.available # UINT64_MAX =>
              (fn_out.has_enough_space <=> Enough(fn_in.available, fn_in.size))
        /\ (~fn_in.is_dir /\ fn_in.available # UINT64_MAX) =>
              /\ fn_out.rc = 0 <=> Enough(fn_in.available, fn_in.size)
              /\ fn_out.rc = 0 => fn_out.out = write_preflight_ok(fn_in.available)
              /\ fn_out.rc # 0 => IsPrefix(<<MSG_PREFLIGHT_FAIL>>, fn_out.out)
        /\ fn_in.is_dir => fn_out.rc = 0 /\ fn_out.out = DirectoryAnswer
\* A size whose margin passes 2^64 is refused although 2^64-2 bytes are free.
C14_OverflowingSizeRefused ==
    /\ Returned("preflight") /\ ~fn_in.is_dir
    /\ fn_in.size = SizeOverflows
    /\ fn_in.available = <<255, 255, 255, 255, 255, 255, 255, 254>>
    /\ ~fn_out.has_enough_space /\ fn_out.rc = -1

\* The entries a walk returned.
Walked == fn_out.entries
\* The nodes of the walked tree below its root, and the relative path of one.
Below == {k \in DOMAIN fn_in.fs : Len(k) >= 2}
RelOf(k) == Tail(AbsPath(Tail(k)))
\* a comes before b in the byte-wise order of strings.
RECURSIVE LexLess(_, _)
LexLess(a, b) ==
    IF b = <<>> THEN FALSE
    ELSE IF a = <<>> THEN TRUE
    ELSE IF Head(a) # Head(b) THEN Head(a) < Head(b)
    ELSE LexLess(Tail(a), Tail(b))

\* C16: the first entry of every walk is the root: relative path ".",
\* a directory, size 0.
C16_RootIsFirst ==
    Returned("walk_directory") =>
        Walked[1] = create_file_entry(fn_in.root, Dot, TRUE, 0)

Fields(m) == [f \in DOMAIN m \ {"type"} |-> m[f]]

\* C18: a message written by the encoder and read back by the decoder
\* (type, length, payload) is the message written, field by field.
C18_RoundTrip ==
    Returned("write_read") =>
        /\ fn_out.back.rc = 0
        /\ fn_out.back.type = fn_in.type
        /\ fn_out.back.msg = Fields(fn_in)

\* The length the source states for a message's payload.
StatedLength(m) ==
    LET strlen0(str) == IF str = NULL THEN 0 ELSE Len(str)
    IN  IF m.type = MSG_META THEN 8 + 1 + 1 + 4 + strlen0(m.name)
        ELSE IF m.type = MSG_PREFLIGHT_OK THEN 8
        ELSE IF m.type = MSG_PREFLIGHT_FAIL THEN 4 + strlen0(m.reason)
        ELSE IF m.type = MSG_TRANSFER_START THEN 8
        ELSE 9
\* C19: the length field of every message written, bytes 2 to 5 read as a
\* big-endian number, is the number of bytes written after it: 14 plus the
\* name's length for Meta, 8 for PreflightOk, 4 plus the reason's length for
\* PreflightFail, 8 for TransferStart, 9 for TransferResult, an absent name
\* or reason counting as an empty one.
C19_LengthIsPayloadLength ==
    Returned("write_read") =>
        /\ Len(fn_out.bytes) >= 5
        /\ fn_out.bytes[1] = fn_in.type
        /\ NatOf(SubSeq(fn_out.bytes, 2, 5)) = Len(fn_out.bytes) - 5
        /\ Len(fn_out.bytes) - 5 = StatedLength(fn_in)
\* A Meta without a name has been written with length 14, a PreflightFail
\* with an empty reason with length 4.
C19_AbsentNameWritten ==
    /\ Returned("write_read")
    /\ \/ fn_in.type = MSG_META /\ fn_in.name = NULL
          /\ SubSeq(fn_out.bytes, 2, 5) = <<0, 0, 0, 14>> /\ Len(fn_out.bytes) = 19
       \/ fn_in.type = MSG_PREFLIGHT_FAIL /\ fn_in.reason = <<>>
          /\ SubSeq(fn_out.bytes, 2, 5) = <<0, 0, 0, 4>> /\ Len(fn_out.bytes) = 9

\* C20: a frame whose length field is not the number of payload bytes its
\* decoding consumes is accepted by no reader: each of them fails on it.
C20_WrongLengthRejected ==
    (Returned("read") /\ NatOf(SubSeq(fn_in, 2, 5)) # Len(fn_in) - 5) =>
        /\ fn_out.meta # "ok"
        /\ fn_out.start # "ok"
        /\ fn_out.preflight \notin {"ok", "fail"}
        /\ fn_out.result # "ok"
        /\ fn_out.message # 0

\* The receiver has run alone on bytes that are the first bytes of a right
\* conversation, and has returned.
ReceivedCut ==
    /\ fn = "handle_connection" /\ rpc = "closed"
    /\ fn_in \in Prefixes(Concat(SentMessages))
\* The lengths at which the conversation is between two entries: before the
\* directory, after it, after the last byte of file a, after the
\* TransferStart of the empty file b.
BetweenEntries == {Len(Concat(SubSeq(SentMessages, 1, n))) : n \in {0, 1, 4, 6}}
\* The name of the file entry a cut of that length falls into.
CutEntry ==
    IF Len(fn_in) > Len(Concat(SubSeq(SentMessages, 1, 4))) THEN n_b ELSE n_a
\* No file of that name has appeared or changed at the destination.
NotMaterialized(name) ==
    \A k \in DOMAIN dstFs :
        (k # <<>> /\ k[Len(k)] = name /\ dstFs[k].kind = "file") =>
            (k \in DOMAIN dst0 /\ dstFs[k] = dst0[k])

\* C21: when the stream ends inside an entry, anywhere after the type byte
\* of its Meta and before its TransferResult is written, the receiver's
\* session ends with failure and the entry's final file has not appeared;
\* the session ends with success only when the stream ends where the type
\* byte of a Meta is expected.
C21_CutMidEntryFails ==
    (ReceivedCut /\ Len(fn_in) \notin BetweenEntries) =>
        /\ rret # 0
        /\ NotMaterialized(CutEntry)

\* A directory is being sent, or has been, to a destination that did not
\* exist when the receiver started.
MultiEntryToFresh ==
    /\ fn = "none" /\ SrcIsDir /\ entries # <<>>
    /\ Lookup(dst0, dst_path).st = "absent"
\* Entry i of the sender's walk exists at its final path, dest/relative_path.
ExistsAtFinal(i) == NodeAt(dstFs, DestPath(entries[i].relative_path)).kind # "none"
\* Entry i is there whole: a directory, or a file of the size the walk
\* recorded.
FullyMaterialized(i) ==
    LET p == DestPath(entries[i].relative_path)
    IN  IF entries[i].is_dir THEN IsDirAt(dstFs, p)
        ELSE IsFileAt(dstFs, p) /\ Len(NodeAt(dstFs, p).data) = entries[i].size

\* C22: in a multi-entry transfer to a fresh destination, in every state and
\* so after an abort too, the entries whose final path exists at the receiver
\* are the first ones of the sender's walk order and each of them is whole:
\* no entry exists while an earlier one is absent.
C22_MaterializedIsPrefix ==
    MultiEntryToFresh =>
        \A j \in 1..Len(entries) :
            ExistsAtFinal(j) =>
                /\ FullyMaterialized(j)
                /\ \A i \in 1..(j - 1) : ExistsAtFinal(i)

\* The sender has written something to the connection.
SenderWrote == \E i \in 1..Len(slog) : slog[i].e \in {"wrMeta", "wrStart", "wrData"}
\* ncp_execute_send has got past the source check, socket() and inet_pton.
ReachedConnect == fn = "ncp_execute_send" /\ fn_out.sockets = 1 /\ fn_in.host_ok

\* C23: ncp_execute_send with retries = N calls connect at most N+1 times,
\* never again after a call that succeeded, writes no message before a
\* call has succeeded, and returns 1 having written nothing when N+1 calls
\* have failed; with N = 0 it calls connect exactly once.
C23_BoundedConnectRetry ==
    /\ [](fn = "ncp_execute_send" =>
            /\ fn_out.attempts <= fn_in.retries + 1
            /\ SenderWrote => fn_out.connected
            /\ (ReachedConnect /\ spc # "connect" /\ ~fn_out.connected) =>
                  /\ spc = "done" /\ sret = 1 /\ ~SenderWrote
                  /\ fn_out.attempts = fn_in.retries + 1
            /\ (ReachedConnect /\ spc # "connect" /\ fn_in.retries = 0) =>
                  fn_out.attempts = 1)
    /\ [][fn_out.connected => fn_out'.attempts = fn_out.attempts]_vars
\* Every allowed attempt has failed and the sender has returned.
C23_AllAttemptsFailed ==
    /\ fn = "ncp_execute_send" /\ fn_in.retries = MaxRetries
    /\ spc = "done" /\ ~fn_out.connected /\ fn_out.attempts = MaxRetries + 1

RECURSIVE SumAt(_, _)
SumAt(es, S) ==
    IF S = {} THEN 0
    ELSE LET i == CHOOSE x \in S : TRUE IN es[i].size + SumAt(es, S \ {i})
FileIndices(es) == {i \in 1..Len(es) : ~es[i].is_dir}

\* C27: calculate_total_size returns the sum of the size fields of exactly
\* the entries that are not directories, whatever the size fields of the
\* directories hold: 0 for an empty walk and for one that holds directories
\* only.
C27_TotalIsSumOfFiles ==
    Returned("calculate_total_size") =>
        /\ fn_out.total = U64(SumAt(fn_in.entries, FileIndices(fn_in.entries)))
        /\ FileIndices(fn_in.entries) = {} => fn_out.total = U64(0)
\* Two directories, one of them with a size field that is not 0, and three
\* files of 8 bytes give 24.
C27_ThreeFilesTwoDirectories ==
    /\ Returned("calculate_total_size")
    /\ Len(fn_in.entries) = 5
    /\ fn_in.entries[1].is_dir /\ fn_in.entries[2].is_dir /\ fn_in.entries[2].size # 0
    /\ \A i \in 3..5 : ~fn_in.entries[i].is_dir /\ fn_in.entries[i].size = 8
    /\ fn_out.total = U64(24)

\* The positions of the Metas in the sender's log, and what it writes.
MetasSent == {j \in 1..Len(slog) : slog[j].e = "wrMeta"}
Writes == {"wrMeta", "wrStart", "wrData"}

\* C28: the sender transfers the entries one at a time in walk order: the
\* k-th Meta it writes is that of entry k, a Meta other than the first is
\* written right after the TransferResult{ok=true} of the entry before it
\* has been read, and after a Meta nothing is written before an answer has
\* been read.
C28_OneEntryAtATime ==
    fn = "none" =>
        \A j \in MetasSent :
            LET k == Cardinality({h \in MetasSent : h <= j})
            IN  /\ slog[j].i = k /\ k <= Len(entries)
                /\ slog[j].r = entries[k].relative_path
                /\ k > 1 => slog[j - 1].e = "rdResult" /\ slog[j - 1].i = 1
                /\ j < Len(slog) => slog[j + 1].e \notin Writes
\* The Meta of a third entry has been written.
C28_ThirdMetaSent ==
    /\ fn = "none" /\ Cardinality(MetasSent) = 3
    /\ slog[Len(slog)].e = "wrMeta" /\ slog[Len(slog)].i = 3

\* The sender waits in a read for bytes that are not there yet.
SenderBlocked ==
    \/ spc = "preflight" /\ PreflightParse(r2s, rclosed).st = "block"
    \/ spc = "result" /\ ResultParse(r2s, rclosed).st = "block"
\* The receiver waits in a read for bytes that are not there yet.
ReceiverBlocked ==
    \/ rpc = "meta" /\ MetaParse(s2r, sclosed).st = "block"
    \/ rpc = "start" /\ StartParse(s2r, sclosed).st = "block"
    \/ rpc = "stream" /\ Len(s2r) < ToRead(file_size, total_bytes) /\ ~sclosed

\* C29: the sender and the receiver never wait for each other: in no
\* reachable state is the sender blocked reading an answer while the
\* receiver is blocked reading from the sender, whether entries are
\* accepted, rejected or fail, and whatever the source files hold when they
\* are read.
C29_NoDeadlock == fn = "none" => ~(SenderBlocked /\ ReceiverBlocked)

\* The next byte to read is there and is not of one of the types given.
Unexpected(chan, types) == chan # <<>> /\ chan[1] \notin types
\* The receiver's step ends its session with a failure, writes nothing and
\* leaves the filesystem as it is.
ReceiverFails ==
    /\ rpc' = "closed" /\ rret' # 0
    /\ r2s' = r2s /\ dstFs' = dstFs
\* The sender's step ends its session with failure 1 and writes nothing.
SenderFails ==
    /\ spc' = "done" /\ sret' = 1
    /\ \A j \in (Len(slog) + 1)..Len(slog') : slog'[j].e \notin Writes

\* C30: a message of a type that is not expected is fatal to the side that
\* reads it.  The receiver fails on a type other than Meta where it awaits a
\* Meta, and on a type other than TransferStart after its PreflightOk for a
\* file, and then the final path holds what it held when the Meta was read;
\* the sender fails on a type other than PreflightOk and PreflightFail after
\* a Meta, and on a type other than TransferResult after the payload.  The
\* side writes no further message.
C30_UnexpectedTypeIsFatal ==
    [][/\ (fn = "handle_connection" /\ rpc = "meta" /\ Unexpected(s2r, {MSG_META}))
            => ReceiverFails
       /\ (fn = "handle_connection" /\ rpc = "start"
              /\ Unexpected(s2r, {MSG_TRANSFER_START}))
            => ReceiverFails /\ NodeAt(dstFs', final_path) = NodeAt(pre, final_path)
       /\ (fn = "send_directory" /\ spc = "preflight"
              /\ Unexpected(r2s, {MSG_PREFLIGHT_OK, MSG_PREFLIGHT_FAIL}))
            => SenderFails
       /\ (fn = "send_directory" /\ spc = "result"
              /\ Unexpected(r2s, {MSG_TRANSFER_RESULT}))
            => SenderFails]_vars
\* The receiver was sent a Meta where the TransferStart of file a was due,
\* after its PreflightOk, and has returned.
C30_MetaInsteadOfStart ==
    /\ fn = "handle_connection"
    /\ fn_in = Concat([SentMessages EXCEPT
                          ![3] = write_meta(n_x, U64(0), TRUE, OVERWRITE_YES)])
    /\ rpc = "closed" /\ rret # 0
    /\ Len(rlog) >= 3 /\ rlog[Len(rlog) - 2].e = "wrOk" /\ rlog[Len(rlog) - 1].e = "rdBad"

\* C24: in the C++ sender only the connecting is retried: once a
\* connection has been established no other one is opened, and no entry's
\* Meta is written a second time, whether the transfer is rejected by a
\* PreflightFail or fails inside an entry.
C24_OnlyConnectIsRetried ==
    fn = "execute_send" =>
        /\ fn_out.connections <= 1
        /\ \A i, j \in MetasSent : i < j => slog[i].i # slog[j].i

\* C25: in the C++ programs a directory entry that the receiver accepts is
\* answered with PreflightOk and then TransferResult{ok=true,
\* received_bytes=0}, and the sender writes the next Meta only after it has
\* read that TransferResult.
C25_DirectoryGetsResult ==
    fn = "execute_send" =>
        /\ \A j \in 1..Len(rlog) :
              LET m == LastBefore(rlog, j, {"rdMeta"})
              IN  (rlog[j].e = "wrOk" /\ m > 0 /\ rlog[m].i = 1) =>
                      /\ j < Len(rlog)
                      /\ rlog[j + 1] = Ev("wrResult", 1, U64(0))
        /\ \A j \in MetasSent :
              (j > 1 /\ slog[j - 1].e # "connect") => slog[j - 1].e = "rdResult"

\* The Metas the receiver has read in this session.
MetasRead == {j \in 1..Len(rlog) : rlog[j].e = "rdMeta"}
\* The entry of the last Meta is complete: its TransferResult was written.
EntryDone == rlog # <<>> /\ rlog[Len(rlog)].e = "wrResult"

\* C31: the final path of an entry follows from what the destination path
\* is when the Meta is handled: dst_path/name when it is a directory,
\* dst_path itself when it is not a directory and the entry is a file, and
\* dst_path itself when it does not exist, for a file and for a directory.
\* So in a directory transfer to a destination that does not exist the
\* first entry is made at dst_path itself and every later one at
\* dst_path/relative_path.  (The entry has a name: a Meta whose name has no
\* bytes, which no walk gives, leaves determine_final_path without a string.)
C31_FinalPathFollowsDestination ==
    (fn = "none" /\ MetasRead # {} /\ rmeta.name # <<>>) =>
        LET st == stat(pre, dst_path)
            here == IF st.rc # 0 THEN "absent" ELSE IF st.is_dir THEN "dir" ELSE "other"
            made == NodeAt(dstFs, final_path).kind = (IF rmeta.is_dir THEN "dir" ELSE "file")
        IN  /\ here = "dir" => final_path = DestPath(rmeta.name)
            /\ (here = "other" /\ ~rmeta.is_dir) => final_path = dst_path
            /\ here = "absent" => final_path = dst_path
            /\ (SrcIsDir /\ stat(dst0, dst_path).rc # 0) =>
                  IF Cardinality(MetasRead) = 1
                  THEN final_path = dst_path /\ (EntryDone => made)
                  ELSE final_path = DestPath(rmeta.name) /\ (EntryDone => made)
\* A directory was sent to a destination that did not exist: its first
\* entry has become the destination itself and a file of a subdirectory has
\* been received below it.
C31_FreshDestinationFilled ==
    /\ fn = "none" /\ SrcIsDir /\ stat(dst0, dst_path).rc # 0
    /\ Cardinality(MetasRead) = 4 /\ EntryDone
    /\ ~rmeta.is_dir /\ final_path = DestPath(n_u_b)
    /\ IsDirAt(dstFs, dst_path) /\ IsFileAt(dstFs, final_path)

\* C32: a file entry that the receiver rejects with PreflightFail, for an
\* overwrite that is refused or for too little room, leaves the receiver's
\* filesystem as it was when the Meta was read: nothing has been created,
\* removed or changed.
C32_RejectedFileLeavesNoTrace ==
    (fn \in {"none", "handle_connection"} /\ LastMeta > 0 /\ ~rmeta.is_dir
        /\ LastReply = "wrFail") => dstFs = pre

\* The TransferStart of the last Meta's entry has been read: total_bytes
\* counts the payload of that entry.
StartedLast == \E j \in (LastMeta + 1)..Len(rlog) : rlog[j].e = "rdStart"

\* C33: the receiver never writes more payload bytes for an entry than the
\* size its Meta declared, for which the room was checked: whatever the
\* peer and whatever file_size the TransferStart declares, the bytes
\* streamed to the temporary file are at most Meta.size.
C33_PayloadWithinMetaSize ==
    (fn \in {"none", "handle_connection"} /\ LastMeta > 0 /\ StartedLast) =>
        /\ total_bytes <= NatOf(rmeta.size)
        /\ Len(NodeAt(dstFs, TempPath(final_path)).data) <= NatOf(rmeta.size)

\* The key of the receiver's destination path, and the keys at or below
\* it.  The temporary companion of the destination path itself, which a
\* file received at dst_path goes through, counts as allowed.
DestKey == Components(dst_path)
WithinDest(k) ==
    \/ IsPrefix(DestKey, k)
    \/ k = Components(TempPath(dst_path))
\* The keys at which the receiver's filesystem is not what it was when the
\* session began.
Touched ==
    {k \in DOMAIN dstFs \cup DOMAIN dst0 :
        ~(k \in DOMAIN dstFs /\ k \in DOMAIN dst0 /\ dstFs[k] = dst0[k])}

\* C34: every path the receiver creates, replaces or deletes while it
\* handles a connection is the destination path or lies below it, whatever
\* names the peer puts in its Metas, names with ".." components and names
\* that begin with a slash included.
C34_StaysBelowDestination ==
    fn \in {"none", "handle_connection"} => \A k \in Touched : WithinDest(k)

\* The overwrite of the file at the last Meta's final path was allowed: the
\* mode byte is Yes, or it is Ask and the operator answered yes.
OverwriteAllowed ==
    \/ rmeta.overwrite_mode = OVERWRITE_YES
    \/ /\ rmeta.overwrite_mode = OVERWRITE_ASK
       /\ \E j \in LastPrompts : rlog[j].i = 1

\* C35: a file that exists at the final path is replaced only when the
\* overwrite_mode byte of the Meta is Yes (1), or Ask (0) and the operator
\* answered yes; for every other value of the byte, 2 and 3 to 255, the file
\* stays as it was and the entry is answered with PreflightFail.
C35_OnlyYesOrAffirmedAskReplaces ==
    (fn \in {"none", "handle_connection"} /\ LastMeta > 0 /\ ~rmeta.is_dir
        /\ IsFileAt(pre, final_path) /\ ~OverwriteAllowed) =>
        /\ NodeAt(dstFs, final_path) = NodeAt(pre, final_path)
        /\ LastReply = "wrFail"

\* The objects that were there when the last Meta was read, other than the
\* one at its final path.
Bystanders == DOMAIN pre \ {Lookup(pre, final_path).key}

\* C36: receiving a file entry with final path P changes nothing that was
\* there before other than P itself: every other object, a file at
\* P.ncp_temp included, is neither truncated nor overwritten nor deleted,
\* under every overwrite mode, while the entry is received, when it has
\* succeeded and when it has failed.
C36_OnlyFinalPathChanges ==
    (fn \in {"none", "handle_connection"} /\ LastMeta > 0 /\ ~rmeta.is_dir) =>
        \A k \in Bystanders : k \in DOMAIN dstFs /\ dstFs[k] = pre[k]

\* The Meta at position j of the receiver's log was accepted and its entry
\* completed: a PreflightOk and then a TransferResult{ok=true} were written
\* before the next Meta was read.
CompletedMeta(j) ==
    \E a, r \in (j + 1)..Len(rlog) :
        /\ a < r /\ rlog[a].e = "wrOk" /\ rlog[r].e = "wrResult" /\ rlog[r].i = 1
        /\ \A h \in (j + 1)..r : rlog[h].e # "rdMeta"
\* The session ended where the type byte of a Meta was due and the stream
\* had ended: nothing was read or written between the start of the session
\* or the last TransferResult and the return.
EndedAtMeta ==
    /\ rpc = "closed" /\ s2r = <<>>
    /\ Len(rlog) = 1 \/ rlog[Len(rlog) - 1].e = "wrResult"

\* C37: the receiver's session returns success exactly when the end of the
\* stream was read where the type byte of a Meta was due and every Meta
\* before it was accepted and completed with TransferResult{ok=true}; a
\* rejection, a message that cannot be decoded (here: a stream that ends
\* inside a message), an unexpected message or an I/O failure makes it
\* return failure; and no TransferResult with ok=false is ever written.
C37_SuccessIffCleanEnd ==
    fn \in {"none", "handle_connection"} =>
        /\ \A j \in 1..Len(rlog) : rlog[j].e = "wrResult" => rlog[j].i = 1
        /\ rpc = "closed" =>
              (rret = 0 <=> (EndedAtMeta /\ \A j \in MetasRead : CompletedMeta(j)))
        /\ (rpc = "closed" /\ \E j \in 1..Len(rlog) : rlog[j].e \in {"wrFail", "rdBad"})
              => rret # 0
        /\ (ReceivedCut /\ Len(fn_in) \notin BetweenEntries) => rret # 0

\* The position in the receiver's log of the k-th Meta it read (0 when it
\* has read fewer).
MetaAt(k) ==
    IF Cardinality(MetasRead) < k THEN 0
    ELSE CHOOSE j \in MetasRead : Cardinality({h \in MetasRead : h <= j}) = k
\* Entry k of the sender is whole at the receiver: the receiver read its
\* Meta as its k-th, accepted and completed it, and for a file the final
\* path it was renamed to holds a file of the size the sender recorded.
EntryArrived(k) ==
    LET j == MetaAt(k)
        e == entries[k]
    IN  /\ j > 0 /\ rlog[j].r = e.relative_path /\ CompletedMeta(j)
        /\ ~e.is_dir =>
              \E r \in (j + 1)..Len(rlog) :
                  /\ rlog[r].e = "rename" /\ rlog[r].i = e.size
                  /\ \A h \in (j + 1)..r : rlog[h].e # "rdMeta"
                  /\ IsFileAt(dstFs, rlog[r].r)
                  /\ Len(NodeAt(dstFs, rlog[r].r).data) = e.size

\* C38: the sender and the receiver agree on the outcome.  When the sender
\* has returned success, every entry of its walk (or its single file) is
\* whole at the receiver, and the receiver's session, once it has returned,
\* has returned success too: no run ends with success at the sender and
\* failure, or a missing or partial entry, at the receiver.
C38_SuccessIsAgreed ==
    (fn = "none" /\ spc = "done" /\ sret = 0) =>
        /\ \A k \in 1..Len(entries) : EntryArrived(k)
        /\ rpc = "closed" => rret = 0

\* The bytes the sender has read from the source file of the entry whose
\* TransferStart declared file_size: none when the size is 0 (the file is
\* not opened), else what send_file_content has read and passed on.
SenderHasRead == IF file_size = U64(0) THEN <<>> ELSE Take(sfd, total_sent)

\* C39: for every file entry that the receiver completes with
\* TransferResult{ok=true}, the final path holds, byte for byte and in
\* order, the bytes the sender read from the source file, and
\* received_bytes is the file_size of the TransferStart, however the chunks
\* of the two sides fall.
C39_ContentIsWhatWasRead ==
    (fn = "none" /\ EntryDone /\ ~rmeta.is_dir) =>
        /\ rlog[Len(rlog)].r = file_size
        /\ NodeAt(dstFs, final_path).data = SenderHasRead

====
